---- MODULE Spec2Model ----
(***************************************************************************)
(* State-machine model of MemecoinSniper (core/sniper.js) together with    *)
(* the parts of TokenAnalyzer it drives.                                   *)
(*                                                                         *)
(* JavaScript runs every callback to completion, so the code between two   *)
(* awaits of an external collaborator (price source, execution gateway,    *)
(* notification sink, analyzer) is one atomic action.  Every setInterval   *)
(* firing and every un-awaited async call is a task of its own; a task's   *)
(* record holds the position of the task and the locals it carries across  *)
(* the await.                                                              *)
(*                                                                         *)
(* Sizes are integers in units of MinBuyAmount / 10^7, release fractions   *)
(* are tenths, prices and percentages are integers.                        *)
(***************************************************************************)
EXTENDS Integers, Sequences, FiniteSets, TLC

\* ---------------------------------------------------------------- bounds
MaxTrades == 2        \* trade hashes that exist in one run
MaxTicks  == 2        \* monitor-interval callbacks in flight at a time
MaxScans  == 1        \* scan-interval callbacks in flight at a time
MaxAnalyses == 2      \* detailed analyses in flight at a time
MaxQueue == 2     \* entries of tokenQueue
MaxSorted == 3    \* entries of a queue given to processTokenQueue

\* ------------------------------------------------------ program constants
ConfigStopLoss      == 50          \* config.trading.stopLoss (percent)
MinBuyAmount        == 10000000    \* config.trading.minBuyAmount
MaxBuyAmount        == 20000000    \* config.trading.maxBuyAmount
maxConcurrentTrades == 1           \* config.sniper.maxConcurrentTrades
minLiquidity        == 1000        \* config.trading.minLiquidity
NoCapacity          == 0         \* maxConcurrentTrades of a sniper that opens no position

\* ----------------------------------------------------------------- inputs
Hashes      == 1..MaxTrades
NoHash      == 0
Ticks       == 1..MaxTicks
Scans       == 1..MaxScans
Analyses    == 1..MaxAnalyses
Networks    == <<"ethereum", "bsc">>     \* keys of this.providers, in order
Rungs       == 1..3
Addresses   == {"0xA", "0xB"}
NoAddress   == "none"
EntryPrices == {100}
ProfitPotentials == {200, 300}
Prices      == {0, 40, 151, 250}   \* what monitor.getCurrentPrice resolves to
Times       == {1, 2}              \* what Date.now() returns
PriceThrow  == -1                  \* monitor.getCurrentPrice rejects
SellOutcomes == {"ok", "fail", "throw"}   \* executeSell: success, success=false, rejects
Absent      == -1                  \* Map.get(key) === undefined
BuyOutcomes == {"ok", "fail", "throw"}    \* executeBuy: success, success=false, rejects
Tokens      == {[address |-> a, network |-> Networks[i]] :
                    a \in Addresses, i \in 1..Len(Networks)}
\* the token of the h-th persisted trade
PersistedToken(h) ==
    LET order == << [address |-> "0xA", network |-> "ethereum"],
                    [address |-> "0xB", network |-> "ethereum"],
                    [address |-> "0xA", network |-> "bsc"],
                    [address |-> "0xB", network |-> "bsc"] >>
    IN order[((h - 1) % 4) + 1]

VARIABLES
    initialized,    \* initialize() has run
    isRunning,      \* this.isRunning
    scanInterval,   \* this.scanInterval is a live timer
    monitoring,     \* at least one monitor interval has been installed
    activeTrades,   \* keys of this.activeTrades, insertion order = hash order
    tradeObj,       \* the trade objects (still referenced by tasks after delete)
    profitTargets,  \* keys of this.profitTargets
    targetObj,      \* the target arrays this.profitTargets maps to
    stopLosses,     \* this.stopLosses, Absent when the key is missing
    tick,           \* monitor-interval callbacks
    closer,         \* the closeAllTrades loop of stop()
    tokenQueue,     \* this.tokenQueue
    scan,           \* scan-interval callbacks
    analysis,       \* processTokenQueue calls (started without await)
    assessment,     \* performDetailedAnalysis: what each call has awaited and decided
    screened,       \* history: what the detectors did in the last quick analysis
    soldOk,         \* history: rungs whose partial sell was acknowledged as successful
    liquidated,     \* history: a full-liquidation sell of the trade has succeeded
    stopFailed,     \* history: a full-liquidation sell of the trade has failed
    app,            \* the hosting process: its HTTP server and its shutdown
    capacity        \* config.sniper.maxConcurrentTrades of this run

intakeVars == <<tokenQueue, scan, analysis, assessment, screened>>

vars == <<initialized, isRunning, scanInterval, monitoring, activeTrades, tradeObj,
          profitTargets, targetObj, stopLosses, tick, closer, soldOk, liquidated,
          stopFailed, tokenQueue, scan, analysis, assessment, screened, app, capacity>>

\* ------------------------------------------------------------ data shapes
NoToken == [address |-> NoAddress, network |-> "none"]

\* a trade object; origSize (the size at entry) is history, hasProfit says
\* whether trade.currentProfit has been assigned
NoTrade == [token |-> NoToken, entryPrice |-> 0, positionSize |-> 0,
            origSize |-> 0, profitPotential |-> 0, hasProfit |-> FALSE]

IdleTick == [pc |-> "idle", hash |-> NoHash, price |-> 0, rung |-> 0, amount |-> 0]

IdleCloser == [pc |-> "idle", hash |-> NoHash, amount |-> 0]

IdleScan == [pc |-> "idle", net |-> 0, todo |-> <<>>]

IdleAnalysis == [pc |-> "idle", token |-> NoToken, positionSize |-> 0,
                 profitPotential |-> 0]

\* performDetailedAnalysis has awaited nothing yet
\* no quick analysis has been recorded
NoOutcomes == [honeypot |-> "none", liquidity |-> "none", age |-> "none",
               ownership |-> "none"]

NoAssessment == [stage |-> "none"]

\* the process before CoinSniper.initialize() has returned: no server, no
\* signal handlers, no shutdown timer
AppStarting == [phase |-> "starting", conns |-> 0, armed |-> FALSE, left |-> 0,
                signal |-> FALSE, code |-> "none"]

\* CoinSniper.start() has returned: the server listens
AppListening == [AppStarting EXCEPT !.phase = "listening"]

\* `if (!x)` on a number
Truthy(x) == x # 0 /\ x # Absent

\* --------------------------------------------------------- pure functions
\* a ladder of three equal rungs
TargetsEqualRungs(profitPotential) ==
    << [percentage |-> 50,  size |-> 3, hit |-> FALSE],
       [percentage |-> 100, size |-> 3, hit |-> FALSE],
       [percentage |-> (profitPotential * 7) \div 10, size |-> 3, hit |-> FALSE] >>

\* setProfitTargets: the ladder (sizes in tenths of the position)
Targets(profitPotential) ==
    << [percentage |-> 50,  size |-> 3, hit |-> FALSE],
       [percentage |-> 100, size |-> 3, hit |-> FALSE],
       [percentage |-> (profitPotential * 7) \div 10, size |-> 4, hit |-> FALSE] >>

\* a stop-loss price with the sign of the percentage turned round
StopLossAboveEntry(entryPrice) == (entryPrice * (100 + ConfigStopLoss)) \div 100

\* setProfitTargets: the stop-loss price
StopLossPrice(entryPrice) == (entryPrice * (100 - ConfigStopLoss)) \div 100

\* monitorTrade: ((currentPrice - entryPrice) / entryPrice) * 100
CurrentProfit(currentPrice, entryPrice) ==
    ((currentPrice - entryPrice) * 100) \div entryPrice

\* the loop body's condition without its `!target.hit` conjunct
RungDueIgnoringHit(target, currentProfit) ==
    currentProfit >= target.percentage

\* checkProfitTargets: the condition of the loop body
RungDue(target, currentProfit) ==
    currentProfit >= target.percentage /\ ~target.hit

\* a loop that goes through the rungs from the last to the first
LastDue(targets, currentProfit, from) ==
    LET due == {r \in Rungs : r >= from /\ RungDue(targets[r], currentProfit)}
    IN IF due = {} THEN 0 ELSE CHOOSE r \in due : \A q \in due : r >= q

\* checkProfitTargets: first rung at or after `from` whose body runs, 0 if none
FirstDue(targets, currentProfit, from) ==
    LET due == {r \in Rungs : r >= from /\ RungDue(targets[r], currentProfit)}
    IN IF due = {} THEN 0 ELSE CHOOSE r \in due : \A q \in due : r <= q

\* executePartialSell: trade.positionSize * percentage
SellAmount(trade, target) == (trade.positionSize * target.size) \div 10

\* a stop that fires at or above the stop-loss price
StopDueAbove(stopLoss, currentPrice) ==
    Truthy(stopLoss) /\ currentPrice >= stopLoss

\* checkStopLoss: does the stop fire
StopDue(stopLoss, currentPrice) ==
    Truthy(stopLoss) /\ currentPrice <= stopLoss

\* for (const [k, v] of map): the key visited after h (0 = from the start)
NextKey(keys, h) ==
    IF \E k \in keys : k > h
    THEN CHOOSE k \in keys : k > h /\ \A j \in keys : j > h => k <= j
    ELSE NoHash

\* the logger line of a successful sell reads trade.currentProfit.toFixed(2):
\* a TypeError while currentProfit is still undefined
LogThrows(trade) == ~trade.hasProfit

\* ------------------------------------------------------------------- Init
Init ==
    /\ initialized = FALSE
    /\ isRunning = FALSE
    /\ scanInterval = FALSE
    /\ monitoring = FALSE
    /\ activeTrades = {}
    /\ tradeObj = [h \in Hashes |-> NoTrade]
    /\ profitTargets = {}
    /\ targetObj = [h \in Hashes |-> Targets(0)]
    /\ stopLosses = [h \in Hashes |-> Absent]
    /\ tick = [t \in Ticks |-> IdleTick]
    /\ closer = IdleCloser
    /\ soldOk = [h \in Hashes |-> {}]
    /\ liquidated = [h \in Hashes |-> FALSE]
    /\ stopFailed = [h \in Hashes |-> FALSE]
    /\ tokenQueue = <<>>
    /\ scan = [s \in Scans |-> IdleScan]
    /\ analysis = [a \in Analyses |-> IdleAnalysis]
    /\ assessment = [a \in Analyses |-> NoAssessment]
    /\ screened = NoOutcomes
    /\ app = AppListening
    /\ capacity = maxConcurrentTrades

\* ------------------------------------------------- initialize / start / stop
\* initialize() -> loadExistingTrades(): each of the n persisted trades is put
\* into activeTrades and setProfitTargets gives it a fresh ladder and stop-loss.
\* A persisted trade is a trade as executeTrade built it (no currentProfit yet).
LoadExistingTrades(n) ==
    /\ ~initialized
    /\ initialized' = TRUE
    /\ \E pp \in [1..n -> ProfitPotentials], ep \in [1..n -> EntryPrices] :
         /\ activeTrades' = 1..n
         /\ tradeObj' = [h \in Hashes |->
                IF h <= n
                THEN [token |-> PersistedToken(h), entryPrice |-> ep[h],
                      positionSize |-> MinBuyAmount, origSize |-> MinBuyAmount,
                      profitPotential |-> pp[h], hasProfit |-> FALSE]
                ELSE NoTrade]
         /\ profitTargets' = 1..n
         /\ targetObj' = [h \in Hashes |->
                IF h <= n THEN Targets(pp[h]) ELSE targetObj[h]]
         /\ stopLosses' = [h \in Hashes |->
                IF h <= n THEN StopLossPrice(ep[h]) ELSE Absent]
    /\ UNCHANGED intakeVars
    /\ UNCHANGED <<isRunning, scanInterval, monitoring, tick, closer, soldOk, liquidated,
                   stopFailed, app, capacity>>

Start ==
    /\ initialized
    /\ ~isRunning
    /\ isRunning' = TRUE
    /\ scanInterval' = TRUE
    /\ monitoring' = TRUE
    /\ UNCHANGED intakeVars
    /\ UNCHANGED <<initialized, activeTrades, tradeObj, profitTargets, targetObj,
                   stopLosses, tick, closer, soldOk, liquidated,
                   stopFailed, app, capacity>>

\* closeAllTrades: executeStopLoss of the next trade of the live iteration,
\* up to its await of executeSell
CloserAt(h, trs) ==
    IF h = NoHash THEN IdleCloser
    ELSE [pc |-> "closeSell", hash |-> h, amount |-> trs[h].positionSize]

Stop ==
    /\ isRunning
    /\ closer.pc = "idle"
    /\ isRunning' = FALSE
    /\ scanInterval' = FALSE
    /\ closer' = CloserAt(NextKey(activeTrades, NoHash), tradeObj)
    /\ UNCHANGED intakeVars
    /\ UNCHANGED <<initialized, monitoring, activeTrades, tradeObj, profitTargets,
                   targetObj, stopLosses, tick, soldOk, liquidated,
                   stopFailed, app, capacity>>

\* ------------------------------------------------------------ monitor tick
\* the for-of loop of the interval callback reaches trade h and monitorTrade
\* runs up to its await of getCurrentPrice
TickAt(h) ==
    IF h = NoHash THEN IdleTick
    ELSE [pc |-> "price", hash |-> h, price |-> 0, rung |-> 0, amount |-> 0]

\* monitorTrade after the two checks (trade.currentProfit = ...), then the
\* loop's next iteration
FinishEval(t, h, tgs, trs, act) ==
    /\ tradeObj' = [trs EXCEPT ![h].hasProfit = TRUE]
    /\ targetObj' = tgs
    /\ tick' = [tick EXCEPT ![t] = TickAt(NextKey(act, h))]

\* checkStopLoss, up to the await of executeSell in executeStopLoss
CheckStopLoss(t, h, p, tgs, trs, act, sl) ==
    IF StopDue(sl[h], p)
    THEN /\ tick' = [tick EXCEPT ![t] =
                [pc |-> "stopSell", hash |-> h, price |-> p, rung |-> 0,
                 amount |-> trs[h].positionSize]]
         /\ tradeObj' = trs
         /\ targetObj' = tgs
    ELSE FinishEval(t, h, tgs, trs, act)

\* checkProfitTargets from rung `from` on, up to the await of executeSell in
\* executePartialSell; when no rung is left, checkStopLoss
CheckProfitTargets(t, h, p, from, tgs, trs, act, sl) ==
    LET due == FirstDue(tgs[h], CurrentProfit(p, trs[h].entryPrice), from)
    IN IF due # 0
       THEN /\ tick' = [tick EXCEPT ![t] =
                   [pc |-> "partialSell", hash |-> h, price |-> p, rung |-> due,
                    amount |-> SellAmount(trs[h], tgs[h][due])]]
            /\ tradeObj' = trs
            /\ targetObj' = tgs
       ELSE CheckStopLoss(t, h, p, tgs, trs, act, sl)

\* a monitor tick that starts only when no earlier tick is still running (as
\* if the interval awaited its callback)
TickFireAwaited(t) ==
    /\ \A u \in Ticks : tick[u].pc = "idle"
    /\ monitoring
    /\ isRunning
    /\ NextKey(activeTrades, NoHash) # NoHash
    /\ tick' = [tick EXCEPT ![t] = TickAt(NextKey(activeTrades, NoHash))]
    /\ UNCHANGED intakeVars
    /\ UNCHANGED <<initialized, isRunning, scanInterval, monitoring, activeTrades,
                   tradeObj, profitTargets, targetObj, stopLosses, closer, soldOk,
                   liquidated,
                   stopFailed, app, capacity>>

\* the interval callback fires; callbacks are not awaited by the timer, so a
\* new one starts whether or not an earlier one is still running
TickFire(t) ==
    /\ monitoring
    /\ isRunning
    /\ tick[t].pc = "idle"
    /\ \A u \in Ticks : u < t => tick[u].pc # "idle"
    /\ NextKey(activeTrades, NoHash) # NoHash
    /\ tick' = [tick EXCEPT ![t] = TickAt(NextKey(activeTrades, NoHash))]
    /\ UNCHANGED intakeVars
    /\ UNCHANGED <<initialized, isRunning, scanInterval, monitoring, activeTrades,
                   tradeObj, profitTargets, targetObj, stopLosses, closer, soldOk,
                   liquidated,
                   stopFailed, app, capacity>>

\* getCurrentPrice settles in a loop without the try/catch around monitorTrade:
\* a throw ends the tick
PriceReturnUncaught(t, p) ==
    /\ tick[t].pc = "price"
    /\ LET h == tick[t].hash
       IN IF p = PriceThrow
          THEN /\ tick' = [tick EXCEPT ![t] = IdleTick]
               /\ UNCHANGED <<tradeObj, targetObj>>
          ELSE IF ~Truthy(p)
          THEN /\ tick' = [tick EXCEPT ![t] = TickAt(NextKey(activeTrades, h))]
               /\ UNCHANGED <<tradeObj, targetObj>>
          ELSE IF h \in profitTargets
               THEN CheckProfitTargets(t, h, p, 1, targetObj, tradeObj, activeTrades,
                                       stopLosses)
               ELSE CheckStopLoss(t, h, p, targetObj, tradeObj, activeTrades,
                                  stopLosses)
    /\ UNCHANGED intakeVars
    /\ UNCHANGED <<initialized, isRunning, scanInterval, monitoring, activeTrades,
                   profitTargets, stopLosses, closer, soldOk, liquidated,
                   stopFailed, app, capacity>>

\* getCurrentPrice settles
PriceReturn(t, p) ==
    /\ tick[t].pc = "price"
    /\ LET h == tick[t].hash
       IN IF p = PriceThrow \/ ~Truthy(p)
          THEN /\ tick' = [tick EXCEPT ![t] = TickAt(NextKey(activeTrades, h))]
               /\ UNCHANGED <<tradeObj, targetObj>>
          ELSE IF h \in profitTargets
               THEN CheckProfitTargets(t, h, p, 1, targetObj, tradeObj, activeTrades,
                                       stopLosses)
               ELSE CheckStopLoss(t, h, p, targetObj, tradeObj, activeTrades,
                                  stopLosses)
    /\ UNCHANGED intakeVars
    /\ UNCHANGED <<initialized, isRunning, scanInterval, monitoring, activeTrades,
                   profitTargets, stopLosses, closer, soldOk, liquidated,
                   stopFailed, app, capacity>>

\* executeSell of executePartialSell settles.  On success the position shrinks
\* and the notification is awaited; in every other case (success = false, a
\* rejection, the TypeError of the log line) executePartialSell returns and
\* checkProfitTargets marks the rung and goes on
PartialSellReturn(t, o) ==
    /\ tick[t].pc = "partialSell"
    /\ LET h == tick[t].hash
           r == tick[t].rung
       IN /\ soldOk' = IF o = "ok" THEN [soldOk EXCEPT ![h] = @ \cup {r}] ELSE soldOk
          /\ IF o = "ok" /\ ~LogThrows(tradeObj[h])
             THEN /\ tradeObj' = [tradeObj EXCEPT ![h].positionSize = @ - tick[t].amount]
                  /\ tick' = [tick EXCEPT ![t].pc = "partialNotify"]
                  /\ UNCHANGED targetObj
             ELSE CheckProfitTargets(t, h, tick[t].price, r + 1,
                                     [targetObj EXCEPT ![h][r].hit = TRUE],
                                     tradeObj, activeTrades, stopLosses)
    /\ UNCHANGED intakeVars
    /\ UNCHANGED <<initialized, isRunning, scanInterval, monitoring, activeTrades,
                   profitTargets, stopLosses, closer, liquidated,
                   stopFailed, app, capacity>>

\* notifyPartialSell settles (either way): target.hit = true, next rung
PartialNotifyReturn(t) ==
    /\ tick[t].pc = "partialNotify"
    /\ LET h == tick[t].hash
           r == tick[t].rung
       IN CheckProfitTargets(t, h, tick[t].price, r + 1,
                             [targetObj EXCEPT ![h][r].hit = TRUE],
                             tradeObj, activeTrades, stopLosses)
    /\ UNCHANGED intakeVars
    /\ UNCHANGED <<initialized, isRunning, scanInterval, monitoring, activeTrades,
                   profitTargets, stopLosses, closer, soldOk, liquidated,
                   stopFailed, app, capacity>>

\* a closeTrade that leaves the ladder behind
CloseTradeKeepsLadder(h) ==
    /\ activeTrades' = activeTrades \ {h}
    /\ profitTargets' = profitTargets
    /\ stopLosses' = [stopLosses EXCEPT ![h] = Absent]

\* closeTrade
CloseTrade(h) ==
    /\ activeTrades' = activeTrades \ {h}
    /\ profitTargets' = profitTargets \ {h}
    /\ stopLosses' = [stopLosses EXCEPT ![h] = Absent]

\* executeSell of executeStopLoss settles, called from checkStopLoss
StopSellReturn(t, o) ==
    /\ tick[t].pc = "stopSell"
    /\ LET h == tick[t].hash
       IN /\ liquidated' = IF o = "ok" THEN [liquidated EXCEPT ![h] = TRUE] ELSE liquidated
          /\ stopFailed' = IF o # "ok" THEN [stopFailed EXCEPT ![h] = TRUE] ELSE stopFailed
          /\ IF o = "ok" /\ ~LogThrows(tradeObj[h])
             THEN /\ CloseTrade(h)
                  /\ tick' = [tick EXCEPT ![t].pc = "stopNotify"]
                  /\ UNCHANGED <<tradeObj, targetObj>>
             ELSE /\ FinishEval(t, h, targetObj, tradeObj, activeTrades)
                  /\ UNCHANGED <<activeTrades, profitTargets, stopLosses>>
    /\ UNCHANGED intakeVars
    /\ UNCHANGED <<initialized, isRunning, scanInterval, monitoring, closer, soldOk,
                   app, capacity>>

\* notifyStopLoss settles (either way)
StopNotifyReturn(t) ==
    /\ tick[t].pc = "stopNotify"
    /\ FinishEval(t, tick[t].hash, targetObj, tradeObj, activeTrades)
    /\ UNCHANGED intakeVars
    /\ UNCHANGED <<initialized, isRunning, scanInterval, monitoring, activeTrades,
                   profitTargets, stopLosses, closer, soldOk, liquidated,
                   stopFailed, app, capacity>>

\* ------------------------------------------------------------ closeAllTrades
\* executeSell of executeStopLoss settles, called from closeAllTrades
CloseSellReturn(o) ==
    /\ closer.pc = "closeSell"
    /\ LET h == closer.hash
       IN /\ liquidated' = IF o = "ok" THEN [liquidated EXCEPT ![h] = TRUE] ELSE liquidated
          /\ stopFailed' = IF o # "ok" THEN [stopFailed EXCEPT ![h] = TRUE] ELSE stopFailed
          /\ IF o = "ok" /\ ~LogThrows(tradeObj[h])
             THEN /\ CloseTrade(h)
                  /\ closer' = [closer EXCEPT !.pc = "closeNotify"]
             ELSE /\ closer' = CloserAt(NextKey(activeTrades, h), tradeObj)
                  /\ UNCHANGED <<activeTrades, profitTargets, stopLosses>>
    /\ UNCHANGED intakeVars
    /\ UNCHANGED <<initialized, isRunning, scanInterval, monitoring, tradeObj,
                   targetObj, tick, soldOk, app, capacity>>

CloseNotifyReturn ==
    /\ closer.pc = "closeNotify"
    /\ closer' = CloserAt(NextKey(activeTrades, closer.hash), tradeObj)
    /\ UNCHANGED intakeVars
    /\ UNCHANGED <<initialized, isRunning, scanInterval, monitoring, activeTrades,
                   tradeObj, profitTargets, targetObj, stopLosses, tick, soldOk,
                   liquidated,
                   stopFailed, app, capacity>>

\* ------------------------------------------------------------------ intake
\* TokenAnalyzer.scanForNewTokens of one network resolves to a list of tokens
\* with distinct addresses (filterUniqueTokens), [] when the scan fails
TokenLists(net) ==
    LET tok(a) == [address |-> a, network |-> Networks[net]]
        pairs  == {p \in Addresses \X Addresses : p[1] # p[2]}
    IN {<<>>} \cup {<<tok(a)>> : a \in Addresses}
              \cup {<<tok(p[1]), tok(p[2])>> : p \in pairs}

\* `Infinity` as a contract age
Infinity == 1000000000

\* what the detectors behind the four quick checks do: answer or throw
QuickOutcomes == [honeypot  : {"honeypot", "clean", "throws"},
                  liquidity : {"liquid", "dry", "throws"},
                  age       : {"young", "old", "throws"},
                  ownership : {"renounced", "owned", "throws"}]

\* a check that answers true where the detector throws
checkHoneypotFailOpen(o) == IF o = "throws" THEN FALSE ELSE o = "honeypot"

\* TokenAnalyzer.checkHoneypot: a failed check assumes a honeypot
checkHoneypot(o) == IF o = "throws" THEN TRUE ELSE o = "honeypot"

\* TokenAnalyzer.checkLiquidity
checkLiquidity(o) == IF o = "throws" THEN FALSE ELSE o = "liquid"

\* TokenAnalyzer.checkContractAge, in seconds
checkContractAge(o) ==
    IF o = "throws" THEN Infinity ELSE IF o = "young" THEN 100 ELSE 1000

\* TokenAnalyzer.checkOwnership: the `renounced` of its result
checkOwnership(o) == IF o = "throws" THEN FALSE ELSE o = "renounced"

\* the `checks` of performQuickAnalysis for the outcomes o
QuickChecksOf(o) ==
    [isHoneypot   |-> checkHoneypot(o.honeypot),
     hasLiquidity |-> checkLiquidity(o.liquidity),
     contractAge  |-> checkContractAge(o.age),
     renounced    |-> checkOwnership(o.ownership)]

\* what the four quick checks resolve to (each check catches its own failure
\* and resolves to its fallback)
QuickChecks == {QuickChecksOf(o) : o \in QuickOutcomes}

\* performQuickAnalysis: the score
QuickScore(c) ==
      (IF ~c.isHoneypot THEN 30 ELSE 0)
    + (IF c.hasLiquidity THEN 25 ELSE 0)
    + (IF c.contractAge <= 300 THEN 20 ELSE 0)
    + (IF c.renounced THEN 25 ELSE 0)

\* an admission by the score alone
IsPromisingByScore(c) == QuickScore(c) >= 70

\* performQuickAnalysis: isPromising
IsPromising(c) == QuickScore(c) >= 70 /\ ~c.isHoneypot /\ c.hasLiquidity

\* `t.address` of a queue entry: analyzeAndQueueToken pushes
\* {token, network, timestamp, initialScore}, which has no such property
EntryAddress(entry) == "undefined"

\* analyzeAndQueueToken: tokenQueue.some(t => t.address === token.address)
InQueue(queue, token) ==
    \E i \in 1..Len(queue) : EntryAddress(queue[i]) = token.address

\* a comparator that puts the latest of equal scores first
QueueBeforeLatestFirst(a, b) ==
    IF b.initialScore # a.initialScore
    THEN b.initialScore - a.initialScore < 0
    ELSE b.timestamp - a.timestamp < 0

\* the comparator of processTokenQueue: a sorts before b
QueueBefore(a, b) ==
    IF b.initialScore # a.initialScore
    THEN b.initialScore - a.initialScore < 0
    ELSE a.timestamp - b.timestamp < 0

\* Array.prototype.sort with that comparator (stable insertion)
RECURSIVE SortQueue(_)
SortQueue(queue) ==
    IF Len(queue) <= 1 THEN queue
    ELSE LET rest == SortQueue(SubSeq(queue, 1, Len(queue) - 1))
             x    == queue[Len(queue)]
             k    == Cardinality({i \in 1..Len(rest) : ~QueueBefore(x, rest[i])})
         IN SubSeq(rest, 1, k) \o <<x>> \o SubSeq(rest, k + 1, Len(rest))

\* analyzeAndQueueToken returns at once for a token whose address is queued:
\* the tokens of the list that are left to screen
RECURSIVE SkipQueued(_, _)
SkipQueued(todo, queue) ==
    IF todo = <<>> THEN <<>>
    ELSE IF InQueue(queue, Head(todo)) THEN SkipQueued(Tail(todo), queue)
    ELSE todo

\* scanForNewTokens: the loops over the tokens of a network and over the
\* networks, up to the next await
ScanAt(net, todo, queue) ==
    LET left == SkipQueued(todo, queue)
    IN IF left # <<>> THEN [pc |-> "quick", net |-> net, todo |-> left]
       ELSE IF net < Len(Networks) THEN [pc |-> "scan", net |-> net + 1, todo |-> <<>>]
       ELSE IdleScan

\* the scan interval fires; like the monitor interval it does not wait for an
\* earlier callback
ScanFire(s) ==
    /\ scanInterval
    /\ isRunning
    /\ scan[s].pc = "idle"
    /\ \A u \in Scans : u < s => scan[u].pc # "idle"
    /\ scan' = [scan EXCEPT ![s] = [pc |-> "scan", net |-> 1, todo |-> <<>>]]
    /\ UNCHANGED <<tokenQueue, analysis>>
    /\ UNCHANGED <<assessment, screened>>
    /\ UNCHANGED <<initialized, isRunning, scanInterval, monitoring, activeTrades,
                   tradeObj, profitTargets, targetObj, stopLosses, tick, closer,
                   soldOk, liquidated,
                   stopFailed, app, capacity>>

\* analyzer.scanForNewTokens settles
ScanReturn(s, toks) ==
    /\ scan[s].pc = "scan"
    /\ toks \in TokenLists(scan[s].net)
    /\ scan' = [scan EXCEPT ![s] = ScanAt(scan[s].net, toks, tokenQueue)]
    /\ UNCHANGED <<tokenQueue, analysis>>
    /\ UNCHANGED <<assessment, screened>>
    /\ UNCHANGED <<initialized, isRunning, scanInterval, monitoring, activeTrades,
                   tradeObj, profitTargets, targetObj, stopLosses, tick, closer,
                   soldOk, liquidated,
                   stopFailed, app, capacity>>

\* analyzeAndQueueToken with a strict test: processTokenQueue is called only
\* while the queue is shorter than maxConcurrentTrades
AnalyzeAndQueueBelow(s, c, ts, maxTrades) ==
    /\ scan[s].pc = "quick"
    /\ Len(tokenQueue) < MaxQueue
    /\ \A i \in 1..Len(tokenQueue) : tokenQueue[i].timestamp <= ts
    /\ LET token  == Head(scan[s].todo)
           pushed == Append(tokenQueue, [token |-> token, timestamp |-> ts,
                                         initialScore |-> QuickScore(c)])
           sorted == SortQueue(pushed)
           a      == CHOOSE x \in Analyses : analysis[x].pc = "idle" /\
                         \A y \in Analyses : y < x => analysis[y].pc # "idle"
       IN IF ~IsPromising(c)
          THEN /\ scan' = [scan EXCEPT ![s] =
                       ScanAt(scan[s].net, Tail(scan[s].todo), tokenQueue)]
               /\ UNCHANGED <<tokenQueue, analysis>>
          ELSE IF Len(pushed) < maxTrades
          THEN /\ \E x \in Analyses : analysis[x].pc = "idle"
               /\ tokenQueue' = Tail(sorted)
               /\ analysis' = [analysis EXCEPT ![a] =
                       [pc |-> "analysis", token |-> Head(sorted).token,
                        positionSize |-> 0, profitPotential |-> 0]]
               /\ scan' = [scan EXCEPT ![s] =
                       ScanAt(scan[s].net, Tail(scan[s].todo), Tail(sorted))]
          ELSE /\ tokenQueue' = pushed
               /\ scan' = [scan EXCEPT ![s] =
                       ScanAt(scan[s].net, Tail(scan[s].todo), pushed)]
               /\ UNCHANGED analysis
    /\ UNCHANGED assessment
    /\ UNCHANGED <<initialized, isRunning, scanInterval, monitoring, activeTrades,
                   tradeObj, profitTargets, targetObj, stopLosses, tick, closer,
                   soldOk, liquidated,
                   stopFailed, app, capacity>>

\* performQuickAnalysis settles: a promising token is pushed and, unless the
\* queue is longer than maxConcurrentTrades, processTokenQueue is called (not
\* awaited): it sorts, shifts and runs performDetailedAnalysis up to its
\* first await
AnalyzeAndQueue(s, c, ts, maxTrades) ==
    /\ scan[s].pc = "quick"
    /\ Len(tokenQueue) < MaxQueue
    /\ \A i \in 1..Len(tokenQueue) : tokenQueue[i].timestamp <= ts
    /\ LET token  == Head(scan[s].todo)
           pushed == Append(tokenQueue, [token |-> token, timestamp |-> ts,
                                         initialScore |-> QuickScore(c)])
           sorted == SortQueue(pushed)
           a      == CHOOSE x \in Analyses : analysis[x].pc = "idle" /\
                         \A y \in Analyses : y < x => analysis[y].pc # "idle"
       IN IF ~IsPromising(c)
          THEN /\ scan' = [scan EXCEPT ![s] =
                       ScanAt(scan[s].net, Tail(scan[s].todo), tokenQueue)]
               /\ UNCHANGED <<tokenQueue, analysis>>
          ELSE IF Len(pushed) <= maxTrades
          THEN /\ \E x \in Analyses : analysis[x].pc = "idle"
               /\ tokenQueue' = Tail(sorted)
               /\ analysis' = [analysis EXCEPT ![a] =
                       [pc |-> "analysis", token |-> Head(sorted).token,
                        positionSize |-> 0, profitPotential |-> 0]]
               /\ scan' = [scan EXCEPT ![s] =
                       ScanAt(scan[s].net, Tail(scan[s].todo), Tail(sorted))]
          ELSE /\ tokenQueue' = pushed
               /\ scan' = [scan EXCEPT ![s] =
                       ScanAt(scan[s].net, Tail(scan[s].todo), pushed)]
               /\ UNCHANGED analysis
    /\ UNCHANGED assessment
    /\ UNCHANGED <<initialized, isRunning, scanInterval, monitoring, activeTrades,
                   tradeObj, profitTargets, targetObj, stopLosses, tick, closer,
                   soldOk, liquidated,
                   stopFailed, app, capacity>>

\* the sniper as configured: config.sniper.maxConcurrentTrades
QuickReturn(s, c, ts) ==
    /\ AnalyzeAndQueue(s, c, ts, maxConcurrentTrades)
    /\ UNCHANGED screened

\* the same with the detectors' outcomes o kept as history
ScreenReturn(s, o, ts) ==
    /\ AnalyzeAndQueue(s, QuickChecksOf(o), ts, maxConcurrentTrades)
    /\ screened' = o

\* a sniper configured with config.sniper.maxConcurrentTrades = 0
QuickReturnNoCapacity(s, c, ts) ==
    /\ AnalyzeAndQueue(s, c, ts, NoCapacity)
    /\ UNCHANGED screened

\* processTokenQueue called on its own: sort, shift, and
\* performDetailedAnalysis up to its first await
ProcessTokenQueue ==
    /\ tokenQueue # <<>>
    /\ \E x \in Analyses : analysis[x].pc = "idle"
    /\ LET sorted == SortQueue(tokenQueue)
           a      == CHOOSE x \in Analyses : analysis[x].pc = "idle" /\
                         \A y \in Analyses : y < x => analysis[y].pc # "idle"
       IN /\ tokenQueue' = Tail(sorted)
          /\ analysis' = [analysis EXCEPT ![a] =
                  [pc |-> "analysis", token |-> Head(sorted).token,
                   positionSize |-> 0, profitPotential |-> 0]]
    /\ UNCHANGED scan
    /\ UNCHANGED <<assessment, screened>>
    /\ UNCHANGED <<initialized, isRunning, scanInterval, monitoring, activeTrades,
                   tradeObj, profitTargets, targetObj, stopLosses, tick, closer,
                   soldOk, liquidated,
                   stopFailed, app, capacity>>

\* the entries analyzeAndQueueToken pushes: promising scores only
QueueEntries ==
    [token : Tokens, timestamp : Times,
     initialScore : {QuickScore(c) : c \in {d \in QuickChecks : IsPromising(d)}}]

\* queues of up to MaxSorted entries
Queues == UNION {[1..n -> QueueEntries] : n \in 0..MaxSorted}

\* ------------------------------------------------- TokenAnalyzer: full analysis

\* What the collaborators of analyzeContract resolve to; `throws` when one of
\* them rejects.
FailedContractChecks ==
    [throws |-> TRUE, isHoneypot |-> FALSE, renounced |-> FALSE, age |-> 0,
     isVerified |-> FALSE, isAudited |-> FALSE, pausable |-> FALSE]
ContractChecks ==
    {FailedContractChecks} \cup
    [throws : {FALSE}, isHoneypot : BOOLEAN, renounced : {TRUE}, age : {1000},
     isVerified : BOOLEAN, isAudited : {FALSE}, pausable : {FALSE}]

\* What the collaborators of analyzeLiquidity resolve to
FailedLiquidityChecks == [throws |-> TRUE, hasLiquidity |-> FALSE, amount |-> 0]
LiquidityChecks ==
    {FailedLiquidityChecks} \cup
    [throws : {FALSE}, hasLiquidity : {TRUE}, amount : {500, 50000}]

\* What socialAnalyzer.analyzeToken resolves to
FailedSocialChecks == [throws |-> TRUE, score |-> 0]
SocialChecks == {FailedSocialChecks} \cup [throws : {FALSE}, score : {90}]

\* What the provider calls of analyzeRiskFactors resolve to (getCode rejecting
\* ends detectScamPatterns, getLogs rejecting reads as not suspicious)
RiskChecks == [getCode : {"clean", "suspicious", "throws"},
               getLogs : {"few", "many", "throws"}]

\* identifyContractRiskFactors
identifyContractRiskFactors(renounced, pausable, age) ==
       (IF ~renounced THEN <<"owner_not_renounced">> ELSE <<>>)
    \o (IF age < 60 THEN <<"very_new_contract">> ELSE <<>>)
    \o (IF pausable THEN <<"pausable_contract">> ELSE <<>>)

\* an analyzeContract without its catch: the failure is passed on
analyzeContractRethrows(c) ==
    [thrown |-> c.throws, isHoneypot |-> c.isHoneypot, renounced |-> c.renounced,
     age |-> c.age, isVerified |-> c.isVerified, isAudited |-> c.isAudited,
     auditScore |-> IF c.isAudited THEN 80 ELSE 0,
     riskFactors |-> identifyContractRiskFactors(c.renounced, c.pausable, c.age)]

\* analyzeContract: the result, or the default of its catch; it never rejects
analyzeContract(c) ==
    IF c.throws
    THEN [thrown |-> FALSE, isHoneypot |-> TRUE, renounced |-> FALSE,
          age |-> Infinity, isVerified |-> FALSE, isAudited |-> FALSE,
          auditScore |-> 0, riskFactors |-> <<"analysis_failed">>]
    ELSE [thrown |-> FALSE, isHoneypot |-> c.isHoneypot, renounced |-> c.renounced,
          age |-> c.age, isVerified |-> c.isVerified, isAudited |-> c.isAudited,
          auditScore |-> IF c.isAudited THEN 80 ELSE 0,
          riskFactors |-> identifyContractRiskFactors(c.renounced, c.pausable, c.age)]

\* assessLiquidityQuality
assessLiquidityQuality(amount) ==
    IF amount < 1000 THEN "poor"
    ELSE IF amount < 10000 THEN "fair"
    ELSE IF amount < 100000 THEN "good"
    ELSE "excellent"

\* analyzeLiquidity: the result, or the default of its catch
analyzeLiquidity(l) ==
    IF l.throws
    THEN [thrown |-> FALSE, hasLiquidity |-> FALSE, amount |-> 0,
          priceImpact |-> 100, quality |-> "poor"]
    ELSE [thrown |-> FALSE, hasLiquidity |-> l.hasLiquidity, amount |-> l.amount,
          priceImpact |-> 1, quality |-> assessLiquidityQuality(l.amount)]

\* analyzeSocialMetrics: the result, or the default of its catch
analyzeSocialMetrics(s) ==
    IF s.throws
    THEN [thrown |-> FALSE, sentiment |-> "neutral", score |-> 50]
    ELSE [thrown |-> FALSE, sentiment |-> "positive", score |-> s.score]

\* analyzeRiskFactors: the list of risk factors
analyzeRiskFactors(r) ==
    [thrown |-> FALSE,
     factors |-> (IF r.getCode = "suspicious" THEN <<"suspicious_code_patterns">> ELSE <<>>)
              \o (IF r.getLogs = "many" THEN <<"suspicious_transactions">> ELSE <<>>)]

Min(a, b) == IF a < b THEN a ELSE b
Max(a, b) == IF a > b THEN a ELSE b

\* calculateAnalysisScore: the points of the contract, of the liquidity and
\* of the social metrics
contractPoints(contract) ==
      (IF ~contract.isHoneypot THEN 40 ELSE 0)
    + (IF contract.isVerified THEN 10 ELSE 0)
    + (IF contract.isAudited THEN 10 ELSE 0)
    + (IF contract.renounced THEN 10 ELSE 0)

liquidityPoints(liquidity) ==
      (IF liquidity.hasLiquidity THEN 30 ELSE 0)
    + (IF liquidity.quality = "excellent" THEN 10 ELSE 0)
    + (IF liquidity.quality = "good" THEN 5 ELSE 0)

socialPoints(social) == Min(social.score \div 5, 20)

\* calculateAnalysisScore (analysis.risk is still the list of factors)
calculateAnalysisScore(contract, liquidity, social, factors) ==
    LET raw ==   contractPoints(contract)
               + liquidityPoints(liquidity)
               + socialPoints(social)
               - Len(factors) * 2
    IN Max(0, Min(100, raw))

\* a risk score that is not limited to 100
calculateRiskScoreUnclamped(contract, liquidity, factors) ==
      (IF contract.isHoneypot THEN 50 ELSE 0)
    + (IF ~contract.renounced THEN 20 ELSE 0)
    + (IF contract.age < 300 THEN 15 ELSE 0)
    + (IF ~liquidity.hasLiquidity THEN 30 ELSE 0)
    + (IF liquidity.quality = "poor" THEN 20 ELSE 0)
    + Len(factors) * 5

\* calculateRiskScore (analysis.risk is still the list of factors)
calculateRiskScore(contract, liquidity, factors) ==
    Min(100,   (IF contract.isHoneypot THEN 50 ELSE 0)
             + (IF ~contract.renounced THEN 20 ELSE 0)
             + (IF contract.age < 300 THEN 15 ELSE 0)
             + (IF ~liquidity.hasLiquidity THEN 30 ELSE 0)
             + (IF liquidity.quality = "poor" THEN 20 ELSE 0)
             + Len(factors) * 5)

\* calculateProfitPotential (analysis.risk is now the risk score); every
\* product is an integer for the scores that occur
calculateProfitPotential(score, social, risk) ==
    LET p0 == 200
        p1 == IF score > 80 THEN p0 * 2 ELSE p0
        p2 == IF score > 90 THEN (p1 * 15) \div 10 ELSE p1
        p3 == IF social.score > 80 THEN (p2 * 13) \div 10 ELSE p2
    IN IF risk < 20 THEN (p3 * 12) \div 10 ELSE p3

\* performFullAnalysis: the object built from the results of the sub-analyses
\* and the three scores calculated from them
fullAnalysis(contract, liquidity, social, factors) ==
    LET score     == calculateAnalysisScore(contract, liquidity, social, factors)
        riskScore == calculateRiskScore(contract, liquidity, factors)
    IN [thrown |-> FALSE,
        contract |-> contract, liquidity |-> liquidity, social |-> social,
        score |-> score, risk |-> riskScore,
        profitPotential |-> calculateProfitPotential(score, social, riskScore)]

\* performFullAnalysis (cache miss): Promise.all of the sub-analyses rejects
\* when one of them rejects and the catch rethrows; otherwise the full analysis
performFullAnalysis(c, l, s, r) ==
    LET contract  == analyzeContract(c)
        liquidity == analyzeLiquidity(l)
        social    == analyzeSocialMetrics(s)
        risk      == analyzeRiskFactors(r)
    IN [fullAnalysis(contract, liquidity, social, risk.factors) EXCEPT
            !.thrown = contract.thrown \/ liquidity.thrown \/ social.thrown \/ risk.thrown]

\* The full analysis as the sniper reads it: `liquidity` is an object, and the
\* properties isVerified and isAudited, which the object does not have at its
\* top level, read as "undefined".
AsRead(full) ==
    [isVerified |-> "undefined", isAudited |-> "undefined",
     liquidity |-> [kind |-> "object", value |-> full.liquidity.amount,
                    hasLiquidity |-> full.liquidity.hasLiquidity,
                    priceImpact |-> full.liquidity.priceImpact,
                    quality |-> full.liquidity.quality],
     contract |-> full.contract, social |-> full.social, score |-> full.score,
     risk |-> full.risk, profitPotential |-> full.profitPotential,
     thrown |-> full.thrown]

\* every full analysis the inputs above give
FullAnalyses ==
    {AsRead(performFullAnalysis(c, l, s, r)) :
        c \in ContractChecks, l \in LiquidityChecks, s \in SocialChecks, r \in RiskChecks}

\* ------------------------------------------- ProfitCalculator: the potential
\* JavaScript's NaN among the numbers of the model (which are all >= 0)
NaN == -1

\* `x < n` and `x > n` on numbers: false when x is NaN
NumLess(x, n) == x # NaN /\ x < n
NumGreater(x, n) == x # NaN /\ x > n

\* x * (m / 1000) on numbers held in thousandths; NaN stays NaN
Scale(x, m) == IF x = NaN \/ m = NaN THEN NaN ELSE (x * m) \div 1000

\* Math.max and Math.min: NaN when an argument is NaN
MathMax(a, b) == IF a = NaN \/ b = NaN THEN NaN ELSE IF a > b THEN a ELSE b
MathMin(a, b) == IF a = NaN \/ b = NaN THEN NaN ELSE IF a < b THEN a ELSE b

\* Math.round of a number held in thousandths
MathRound(x) == IF x = NaN THEN NaN ELSE (x + 500) \div 1000

\* `analysis.risk.length * 0.1`, in thousandths: analysis.risk is the number
\* calculateRiskScore returned, a number has no `length`, and
\* undefined * 0.1 is NaN
riskPenalty(risk) == NaN

\* the product of the multipliers of analyzeMarketConditions,
\* analyzeTechnicalSignals, analyzeSentimentSignals and analyzeMomentum, in
\* thousandths (each is 1.0 when its analyzer throws)
Signals == {500, 1000, 2000}

\* calculateBasePotential reads analysis.contract.ownership.renounced: a
\* TypeError on an object without it
BasePotentialThrows(an) == "renounced" \notin DOMAIN an.contract

\* calculateBasePotential, in thousandths
calculateBasePotential(an) ==
    LET p0 == 200000
        p1 == IF an.contract.isVerified THEN Scale(p0, 1200) ELSE p0
        p2 == IF an.contract.isAudited THEN Scale(p1, 1300) ELSE p1
        p3 == IF an.contract.renounced THEN Scale(p2, 1150) ELSE p2
        p4 == CASE an.liquidity.quality = "excellent" -> Scale(p3, 1400)
                [] an.liquidity.quality = "good"      -> Scale(p3, 1200)
                [] an.liquidity.quality = "fair"      -> p3
                [] an.liquidity.quality = "poor"      -> Scale(p3, 700)
        p5 == IF an.social.score > 80 THEN Scale(p4, 1300)
              ELSE IF an.social.score > 60 THEN Scale(p4, 1100)
              ELSE IF an.social.score < 40 THEN Scale(p4, 800)
              ELSE p4
    IN Scale(p5, MathMax(500, IF riskPenalty(an.risk) = NaN THEN NaN
                              ELSE 1000 - riskPenalty(an.risk)))

\* calculateVolatilityAdjustment, in thousandths (priceImpact || 10)
calculateVolatilityAdjustment(an) ==
    LET volatility == IF an.liquidity.priceImpact = 0 THEN 10 ELSE an.liquidity.priceImpact
    IN IF volatility < 5 THEN 900
       ELSE IF volatility < 15 THEN 1000
       ELSE IF volatility < 30 THEN 1100
       ELSE 1200

\* calculateRiskAdjustment, in thousandths
calculateRiskAdjustment(an) ==
    IF an.risk < 20 THEN 1200
    ELSE IF an.risk < 40 THEN 1100
    ELSE IF an.risk < 60 THEN 1000
    ELSE IF an.risk < 80 THEN 900
    ELSE 700

\* applyFinalAdjustments, in thousandths: riskAppetite 0.7 and
\* profitAggressiveness 0.8 give the factors 0.85 and 1.12
applyFinalAdjustments(potential) ==
    MathMax(100000, MathMin(2000000, Scale(Scale(potential, 850), 1120)))

\* calculatePotential: 200 from its catch, else the rounded final potential
calculatePotential(an, signals) ==
    IF BasePotentialThrows(an) THEN 200
    ELSE MathRound(applyFinalAdjustments(
             Scale(Scale(Scale(calculateBasePotential(an), signals),
                         calculateVolatilityAdjustment(an)),
                   calculateRiskAdjustment(an))))

\* --------------------------------------------------------- detailed analysis
\* The full analyses the intake is run with: a sound token with good liquidity,
\* verified or not.  (Every full analysis is rejected by makeTradingDecision,
\* so the choice does not change what the intake can reach.)
PipelineAnalyses ==
    {an \in FullAnalyses :
        /\ ~an.contract.isHoneypot
        /\ an.liquidity.value = 50000
        /\ an.social.score = 90
        /\ an.risk = 0}

\* Objects of the shape makeTradingDecision reads: flags and a numeric
\* liquidity at the top level.
GateAnalyses ==
    [isVerified : {"true", "false"}, isAudited : {"false"},
     liquidity : {[kind |-> "number", value |-> 500], [kind |-> "number", value |-> 5000]},
     contract : [isVerified : {TRUE}, isAudited : {FALSE}],
     risk : {20, 60}, thrown : {FALSE}]

Sentiments   == [score : {50, 70}]
RiskScores   == {20, 80}

\* `!x` for a property that is a boolean or missing
Falsy(x) == x # "true"

\* `x < n` in JavaScript: false when x is not a number (NaN)
JsLess(x, n) == x.kind = "number" /\ x.value < n

\* the decision without its risk threshold
makeTradingDecisionNoRisk(an, sentiment, riskScore, profitPotential) ==
    IF NumLess(profitPotential, 200) THEN FALSE
    ELSE IF sentiment.score < 60 THEN FALSE
    ELSE IF Falsy(an.isVerified) /\ Falsy(an.isAudited) THEN FALSE
    ELSE IF JsLess(an.liquidity, minLiquidity) THEN FALSE
    ELSE TRUE

\* the decision without its contract quality test
makeTradingDecisionNoQuality(an, sentiment, riskScore, profitPotential) ==
    IF riskScore > 70 THEN FALSE
    ELSE IF NumLess(profitPotential, 200) THEN FALSE
    ELSE IF sentiment.score < 60 THEN FALSE
    ELSE IF JsLess(an.liquidity, minLiquidity) THEN FALSE
    ELSE TRUE

\* a decision that also looks at the open positions
makeTradingDecisionByState(an, sentiment, riskScore, profitPotential) ==
    IF riskScore > 70 THEN FALSE
    ELSE IF NumLess(profitPotential, 200) THEN FALSE
    ELSE IF sentiment.score < 60 THEN FALSE
    ELSE IF Falsy(an.isVerified) /\ Falsy(an.isAudited) THEN FALSE
    ELSE IF JsLess(an.liquidity, minLiquidity) THEN FALSE
    ELSE activeTrades = {}

makeTradingDecision(an, sentiment, riskScore, profitPotential) ==
    IF riskScore > 70 THEN FALSE
    ELSE IF NumLess(profitPotential, 200) THEN FALSE
    ELSE IF sentiment.score < 60 THEN FALSE
    ELSE IF Falsy(an.isVerified) /\ Falsy(an.isAudited) THEN FALSE
    ELSE IF JsLess(an.liquidity, minLiquidity) THEN FALSE
    ELSE TRUE

calculatePositionSize(profitPotential, risk) ==
    LET s0 == MinBuyAmount
        s1 == IF NumGreater(profitPotential, 500) THEN (s0 * 15) \div 10 ELSE s0
        s2 == IF NumGreater(profitPotential, 1000) THEN s1 * 2 ELSE s1
        s3 == IF risk < 30 THEN (s2 * 12) \div 10 ELSE s2
        s4 == IF risk > 50 THEN (s3 * 8) \div 10 ELSE s3
    IN IF s4 < MaxBuyAmount THEN s4 ELSE MaxBuyAmount

\* performDetailedAnalysis: one of its awaited calls rejects; the catch logs
AnalysisThrows(a) ==
    /\ analysis[a].pc \in {"analysis", "assess"}
    /\ analysis' = [analysis EXCEPT ![a] = IdleAnalysis]
    /\ UNCHANGED <<tokenQueue, scan>>
    /\ UNCHANGED <<assessment, screened>>
    /\ UNCHANGED <<initialized, isRunning, scanInterval, monitoring, activeTrades,
                   tradeObj, profitTargets, targetObj, stopLosses, tick, closer,
                   soldOk, liquidated,
                   stopFailed, app, capacity>>

\* performDetailedAnalysis: performFullAnalysis, the sentiment analysis, the
\* risk assessment and the profit calculation have settled (the sniper's state
\* is not touched between them).  An accepted token goes on into executeTrade,
\* up to its await of executeBuy.
AnalysisReturn(a, an, sentiment, riskScore, profitPotential) ==
    /\ analysis[a].pc = "analysis"
    /\ IF makeTradingDecision(an, sentiment, riskScore, profitPotential)
       THEN analysis' = [analysis EXCEPT ![a] =
                [pc |-> "buy", token |-> analysis[a].token,
                 positionSize |-> calculatePositionSize(profitPotential, an.risk),
                 profitPotential |-> profitPotential]]
       ELSE analysis' = [analysis EXCEPT ![a] = IdleAnalysis]
    /\ UNCHANGED <<tokenQueue, scan>>
    /\ UNCHANGED <<assessment, screened>>
    /\ UNCHANGED <<initialized, isRunning, scanInterval, monitoring, activeTrades,
                   tradeObj, profitTargets, targetObj, stopLosses, tick, closer,
                   soldOk, liquidated,
                   stopFailed, app, capacity>>

\* the hash of the next trade: hashes are handed out in increasing order, so
\* the order of the keys is the insertion order of the Map
FreshHash == CHOOSE h \in Hashes : tradeObj[h] = NoTrade /\
                 \A g \in Hashes : g < h => tradeObj[g] # NoTrade

\* executeBuy settles: on success the trade is recorded and setProfitTargets
\* installs its ladder and stop-loss (the notification and the database write
\* that follow do not touch the sniper's state)
BuyReturn(a, o, price) ==
    /\ analysis[a].pc = "buy"
    /\ IF o = "ok"
       THEN /\ \E h \in Hashes : tradeObj[h] = NoTrade
            /\ LET h == FreshHash
               IN /\ activeTrades' = activeTrades \cup {h}
                  /\ tradeObj' = [tradeObj EXCEPT ![h] =
                         [token |-> analysis[a].token, entryPrice |-> price,
                          positionSize |-> analysis[a].positionSize,
                          origSize |-> analysis[a].positionSize,
                          profitPotential |-> analysis[a].profitPotential,
                          hasProfit |-> FALSE]]
                  /\ profitTargets' = profitTargets \cup {h}
                  /\ targetObj' = [targetObj EXCEPT ![h] =
                         Targets(analysis[a].profitPotential)]
                  /\ stopLosses' = [stopLosses EXCEPT ![h] = StopLossPrice(price)]
       ELSE UNCHANGED <<activeTrades, tradeObj, profitTargets, targetObj, stopLosses>>
    /\ analysis' = [analysis EXCEPT ![a] = IdleAnalysis]
    /\ UNCHANGED <<tokenQueue, scan>>
    /\ UNCHANGED <<assessment, screened>>
    /\ UNCHANGED <<initialized, isRunning, scanInterval, monitoring, tick, closer,
                   soldOk, liquidated,
                   stopFailed, app, capacity>>

\* ------------------------------- performDetailedAnalysis, one await at a time
\* what riskAssessor.assessToken and profitCalculator.calculatePotential
\* resolve to, around the thresholds of makeTradingDecision
AssessedRisks      == {20, 40, 70, 71, 80}
AssessedPotentials == {150, 199, 200, 300, 600}

\* analyzer.performFullAnalysis settles: it rejected (the catch logs and the
\* call ends), or the analysis is kept for the awaits that follow
FullAnalysisReturn(a, an) ==
    /\ analysis[a].pc = "analysis"
    /\ IF an.thrown
       THEN /\ analysis' = [analysis EXCEPT ![a] = IdleAnalysis]
            /\ UNCHANGED assessment
       ELSE /\ analysis' = [analysis EXCEPT ![a].pc = "assess"]
            /\ assessment' = [assessment EXCEPT ![a] =
                    [stage |-> "analysed", full |-> an]]
    /\ UNCHANGED screened
    /\ UNCHANGED <<tokenQueue, scan>>
    /\ UNCHANGED <<initialized, isRunning, scanInterval, monitoring, activeTrades,
                   tradeObj, profitTargets, targetObj, stopLosses, tick, closer,
                   soldOk, liquidated,
                   stopFailed, app, capacity>>

\* the end of performDetailedAnalysis for a given profit potential:
\* makeTradingDecision, then executeTrade up to its await of executeBuy or
\* the rejection
Decide(a, sentiment, riskScore, profitPotential) ==
    /\ analysis[a].pc = "assess"
    /\ LET an == assessment[a].full
           shouldTrade == makeTradingDecision(an, sentiment, riskScore, profitPotential)
       IN /\ assessment' = [assessment EXCEPT ![a] =
                  [stage |-> "decided", full |-> an, sentiment |-> sentiment,
                   riskScore |-> riskScore, profitPotential |-> profitPotential,
                   shouldTrade |-> shouldTrade]]
          /\ IF shouldTrade
             THEN analysis' = [analysis EXCEPT ![a] =
                      [pc |-> "buy", token |-> analysis[a].token,
                       positionSize |-> calculatePositionSize(profitPotential, an.risk),
                       profitPotential |-> profitPotential]]
             ELSE analysis' = [analysis EXCEPT ![a] = IdleAnalysis]
    /\ UNCHANGED screened
    /\ UNCHANGED <<tokenQueue, scan>>
    /\ UNCHANGED <<initialized, isRunning, scanInterval, monitoring, activeTrades,
                   tradeObj, profitTargets, targetObj, stopLosses, tick, closer,
                   soldOk, liquidated,
                   stopFailed, app, capacity>>

\* the sentiment analysis, the risk assessment and the profit calculation
\* have settled; the potential is what calculatePotential makes of the full
\* analysis
AssessReturn(a, sentiment, riskScore, signals) ==
    /\ analysis[a].pc = "assess"
    /\ Decide(a, sentiment, riskScore, calculatePotential(assessment[a].full, signals))

\* ------------------------------------------------------------------- Next
LoadTrades == \E n \in 0..MaxTrades : LoadExistingTrades(n)
LoadOneTrade == LoadExistingTrades(1)
LoadNoTrade == LoadExistingTrades(0)
MonitorFires == \E t \in Ticks : TickFire(t)
PriceSettles == \E t \in Ticks, p \in Prices \cup {PriceThrow} : PriceReturn(t, p)
PartialSellSettles == \E t \in Ticks, o \in SellOutcomes : PartialSellReturn(t, o)
PartialNotifySettles == \E t \in Ticks : PartialNotifyReturn(t)
StopSellSettles == \E t \in Ticks, o \in SellOutcomes : StopSellReturn(t, o)
StopNotifySettles == \E t \in Ticks : StopNotifyReturn(t)
CloseSellSettles == \E o \in SellOutcomes : CloseSellReturn(o)
ScanFires == \E s \in Scans : ScanFire(s)
ScanSettles == \E s \in Scans, toks \in UNION {TokenLists(n) : n \in 1..Len(Networks)} :
                   ScanReturn(s, toks)
QuickSettles == \E s \in Scans, c \in QuickChecks, ts \in Times : QuickReturn(s, c, ts)
AnalysisFails == \E a \in Analyses : AnalysisThrows(a)
AnalysisSettles ==
    \E a \in Analyses, an \in PipelineAnalyses,
       sentiment \in Sentiments, riskScore \in RiskScores, signals \in Signals :
        AnalysisReturn(a, an, sentiment, riskScore, calculatePotential(an, signals))
GateAnalysisSettles ==
    \E a \in Analyses, an \in GateAnalyses,
       sentiment \in Sentiments, riskScore \in RiskScores, signals \in Signals :
        AnalysisReturn(a, an, sentiment, riskScore, calculatePotential(an, signals))
BuySettles == \E a \in Analyses, o \in BuyOutcomes, price \in EntryPrices : BuyReturn(a, o, price)

\* the whole program
Next ==
    \/ LoadTrades
    \/ Start
    \/ Stop
    \/ MonitorFires
    \/ PriceSettles
    \/ PartialSellSettles
    \/ PartialNotifySettles
    \/ StopSellSettles
    \/ StopNotifySettles
    \/ CloseSellSettles
    \/ CloseNotifyReturn
    \/ ScanFires
    \/ ScanSettles
    \/ QuickSettles
    \/ AnalysisFails
    \/ AnalysisSettles
    \/ BuySettles

Spec == Init /\ [][Next]_vars

\* The program with one persisted position and no discoveries: the lifecycle
\* of a position under overlapping monitor ticks and shutdown.
NextMonitor ==
    \/ LoadOneTrade
    \/ Start
    \/ Stop
    \/ MonitorFires
    \/ PriceSettles
    \/ PartialSellSettles
    \/ PartialNotifySettles
    \/ StopSellSettles
    \/ StopNotifySettles
    \/ CloseSellSettles
    \/ CloseNotifyReturn

MonitorSpec == Init /\ [][NextMonitor]_vars

\* The program while no monitor tick fires: rehydration, discovery, screening,
\* analysis, decision and shutdown.  (Without a completed monitor tick no trade
\* has a currentProfit, so closeAllTrades never gets as far as closeTrade.)
NextIntake ==
    \/ LoadTrades
    \/ Start
    \/ Stop
    \/ CloseSellSettles
    \/ ScanFires
    \/ ScanSettles
    \/ QuickSettles
    \/ AnalysisFails
    \/ AnalysisSettles

IntakeSpec == Init /\ [][NextIntake]_vars

\* The intake of a sniper configured with maxConcurrentTrades = 0, on an
\* empty database: processTokenQueue is never called.
QuickSettlesNoCapacity ==
    \E s \in Scans, c \in QuickChecks, ts \in Times : QuickReturnNoCapacity(s, c, ts)

NextQueue ==
    \/ LoadNoTrade
    \/ Start
    \/ ScanFires
    \/ ScanSettles
    \/ QuickSettlesNoCapacity

QueueSpec == Init /\ [][NextQueue]_vars

\* The intake on an empty database, with the outcomes of the detectors kept.
ScreenSettles ==
    \E s \in Scans, o \in QuickOutcomes, ts \in Times : ScreenReturn(s, o, ts)

NextScreen ==
    \/ LoadNoTrade
    \/ Start
    \/ ScanFires
    \/ ScanSettles
    \/ ScreenSettles
    \/ AnalysisFails

ScreenSpec == Init /\ [][NextScreen]_vars

\* processTokenQueue on every queue of up to MaxSorted entries of a running
\* sniper.
SortInit ==
    /\ initialized = TRUE
    /\ isRunning = TRUE
    /\ scanInterval = TRUE
    /\ monitoring = TRUE
    /\ activeTrades = {}
    /\ tradeObj = [h \in Hashes |-> NoTrade]
    /\ profitTargets = {}
    /\ targetObj = [h \in Hashes |-> Targets(0)]
    /\ stopLosses = [h \in Hashes |-> Absent]
    /\ tick = [t \in Ticks |-> IdleTick]
    /\ closer = IdleCloser
    /\ soldOk = [h \in Hashes |-> {}]
    /\ liquidated = [h \in Hashes |-> FALSE]
    /\ stopFailed = [h \in Hashes |-> FALSE]
    /\ tokenQueue \in Queues
    /\ scan = [s \in Scans |-> IdleScan]
    /\ analysis = [a \in Analyses |-> IdleAnalysis]
    /\ assessment = [a \in Analyses |-> NoAssessment]
    /\ screened = NoOutcomes
    /\ app = AppListening
    /\ capacity = maxConcurrentTrades

NextSort ==
    \/ ProcessTokenQueue
    \/ AnalysisFails

SortSpec == SortInit /\ [][NextSort]_vars

\* The intake, from an empty database, with an analyzer whose result has the
\* shape makeTradingDecision reads, so that executeTrade is exercised.
NextTrade ==
    \/ LoadNoTrade
    \/ Start
    \/ Stop
    \/ CloseSellSettles
    \/ ScanFires
    \/ ScanSettles
    \/ QuickSettles
    \/ AnalysisFails
    \/ GateAnalysisSettles
    \/ BuySettles

TradeSpec == Init /\ [][NextTrade]_vars

\* The two ways a position comes about: loadExistingTrades at initialisation
\* and executeTrade, with an analyzer whose result has the shape
\* makeTradingDecision reads.
NextPosition ==
    \/ LoadTrades
    \/ Start
    \/ ScanFires
    \/ ScanSettles
    \/ QuickSettles
    \/ AnalysisFails
    \/ GateAnalysisSettles
    \/ BuySettles

PositionSpec == Init /\ [][NextPosition]_vars

FullAnalysisSettles == \E a \in Analyses, an \in FullAnalyses : FullAnalysisReturn(a, an)
ShapedAnalysisSettles == \E a \in Analyses, an \in GateAnalyses : FullAnalysisReturn(a, an)
AssessSettles ==
    \E a \in Analyses, sentiment \in Sentiments,
       riskScore \in AssessedRisks, signals \in Signals :
        AssessReturn(a, sentiment, riskScore, signals)
DecideSettles ==
    \E a \in Analyses, sentiment \in Sentiments,
       riskScore \in AssessedRisks, pp \in AssessedPotentials :
        Decide(a, sentiment, riskScore, pp)

\* The sniper is running on an empty database, one discovered token has been
\* taken into detailed analysis and the scan that found it has ended.
GateInit ==
    /\ initialized = TRUE
    /\ isRunning = TRUE
    /\ scanInterval = TRUE
    /\ monitoring = TRUE
    /\ activeTrades = {}
    /\ tradeObj = [h \in Hashes |-> NoTrade]
    /\ profitTargets = {}
    /\ targetObj = [h \in Hashes |-> Targets(0)]
    /\ stopLosses = [h \in Hashes |-> Absent]
    /\ tick = [t \in Ticks |-> IdleTick]
    /\ closer = IdleCloser
    /\ soldOk = [h \in Hashes |-> {}]
    /\ liquidated = [h \in Hashes |-> FALSE]
    /\ stopFailed = [h \in Hashes |-> FALSE]
    /\ tokenQueue = <<>>
    /\ scan = [s \in Scans |-> IdleScan]
    /\ \E token \in Tokens :
          analysis = [a \in Analyses |->
              IF a = 1 THEN [pc |-> "analysis", token |-> token,
                             positionSize |-> 0, profitPotential |-> 0]
              ELSE IdleAnalysis]
    /\ assessment = [a \in Analyses |-> NoAssessment]
    /\ screened = NoOutcomes
    /\ app = AppListening
    /\ capacity = maxConcurrentTrades

\* One detailed analysis of the pipeline, await by await.  (The decision
\* rejects every full analysis, so executeBuy is never awaited.)
NextGate ==
    \/ AnalysisFails
    \/ FullAnalysisSettles
    \/ AssessSettles

GateSpec == GateInit /\ [][NextGate]_vars

\* makeTradingDecision on drawn arguments: analyses of the shape it reads as
\* well as full analyses, and every profit potential of AssessedPotentials.
NextDecision ==
    \/ AnalysisFails
    \/ FullAnalysisSettles
    \/ ShapedAnalysisSettles
    \/ DecideSettles
    \/ BuySettles

DecisionSpec == GateInit /\ [][NextDecision]_vars

\* calculateAnalysisScore and calculateRiskScore on drawn sub-analysis
\* results: every contract, liquidity tier and social score, and up to
\* MaxFactors risk factors.
MaxFactors == 5

ScoredContracts ==
    [thrown : {FALSE}, isHoneypot : BOOLEAN, renounced : BOOLEAN,
     age : {100, 1000}, isVerified : BOOLEAN, isAudited : BOOLEAN,
     auditScore : {0}, riskFactors : {<<>>}]

ScoredLiquidities ==
    [thrown : {FALSE}, hasLiquidity : BOOLEAN, amount : {0}, priceImpact : {1},
     quality : {"poor", "fair", "good", "excellent"}]

ScoredSocials == [thrown : {FALSE}, sentiment : {"neutral"}, score : {0, 50, 100}]

FactorLists == {[i \in 1..n |-> "risk_factor"] : n \in 0..MaxFactors}

\* every full analysis these results give
ScoredAnalyses ==
    {AsRead(fullAnalysis(contract, liquidity, social, factors)) :
        contract \in ScoredContracts, liquidity \in ScoredLiquidities,
        social \in ScoredSocials, factors \in FactorLists}

ScoredAnalysisSettles ==
    \E a \in Analyses, an \in ScoredAnalyses : FullAnalysisReturn(a, an)

NextScore ==
    \/ AnalysisFails
    \/ ScoredAnalysisSettles

ScoreSpec == GateInit /\ [][NextScore]_vars

\* ------------------------------------------------------------------ claims
\* a sell request for rung r of trade h goes out in this step
IssuesPartial(h, r) ==
    \E t \in Ticks :
        /\ tick'[t].pc = "partialSell" /\ tick'[t].hash = h /\ tick'[t].rung = r
        /\ ~(tick[t].pc = "partialSell" /\ tick[t].hash = h /\ tick[t].rung = r)

\* a full-liquidation sell request for trade h goes out in this step
IssuesFull(h) ==
    \/ \E t \in Ticks : /\ tick'[t].pc = "stopSell" /\ tick'[t].hash = h
                        /\ ~(tick[t].pc = "stopSell" /\ tick[t].hash = h)
    \/ /\ closer'.pc = "closeSell" /\ closer'.hash = h
       /\ ~(closer.pc = "closeSell" /\ closer.hash = h)

\* a monitor tick starts evaluating trade h in this step
StartsEval(h) ==
    \E t \in Ticks : /\ tick'[t].pc = "price" /\ tick'[t].hash = h
                     /\ ~(tick[t].pc = "price" /\ tick[t].hash = h)

\* tick t is at rung r of trade h (its sell or the notification is awaited)
AtRung(rec, h, r) ==
    rec.pc \in {"partialSell", "partialNotify"} /\ rec.hash = h /\ rec.rung = r

\* trade h was opened and closeTrade has removed it
Closed(h) == tradeObj[h] # NoTrade /\ h \notin activeTrades

\* C1: a rung's hit flag is true only if a partial sell for that rung was
\* acknowledged as successful (a failed sell leaves it false).
C1_HitOnlyAfterAck ==
    \A h \in Hashes, r \in Rungs : targetObj[h][r].hit => r \in soldOk[h]

\* C2: at most one monitorTrade evaluation of a position is in flight.
C2_OneEvaluationPerPosition ==
    \A h \in Hashes :
        Cardinality({t \in Ticks : tick[t].pc # "idle" /\ tick[t].hash = h}) <= 1

\* C3: a tick that leaves a rung it has sold leaves it marked, a marked rung
\* stays marked, and no sell request goes out for a marked rung: once a tick
\* has sold a rung and finished, no later tick sells that rung again.
C3_NoRefire ==
    [][\A h \in Hashes, r \in Rungs :
        /\ targetObj[h][r].hit => targetObj'[h][r].hit /\ ~IssuesPartial(h, r)
        /\ \A t \in Ticks :
              (AtRung(tick[t], h, r) /\ ~AtRung(tick'[t], h, r) /\ r \in soldOk'[h])
                  => targetObj'[h][r].hit]_vars

\* C3 witness: the first rung was sold and marked, the tick that sold it has
\* finished, and a later tick is evaluating the position.
C3_Witness ==
    \E h \in Hashes, t \in Ticks :
        /\ targetObj[h][1].hit /\ 1 \in soldOk[h]
        /\ tradeObj[h].positionSize < tradeObj[h].origSize
        /\ tick[t].pc = "price" /\ tick[t].hash = h
        /\ \A u \in Ticks \ {t} : tick[u].pc = "idle"

\* C4: activeTrades never holds more than maxConcurrentTrades positions.
C4_WithinCapacity == Cardinality(activeTrades) <= maxConcurrentTrades

\* C5: no token is queued or taken into analysis while it is pending in
\* tokenQueue or has an entry in activeTrades, and activeTrades never holds
\* two positions of one token.
HasPosition(token) == \E h \in activeTrades : tradeObj[h].token = token
IsPending(token) == \E i \in 1..Len(tokenQueue) : tokenQueue[i].token = token
C5_NoDuplicateAdmission ==
    [][/\ \A a \in Analyses :
            (analysis[a].pc = "idle" /\ analysis'[a].pc = "analysis")
                => ~HasPosition(analysis'[a].token) /\ ~IsPending(analysis'[a].token)
       /\ \A g, h \in activeTrades' :
            g # h => tradeObj'[g].token # tradeObj'[h].token]_vars

\* C6: a tick that fetches a price at or below the stop-loss price of an open
\* position issues a sell of the whole remaining size, and when that sell
\* succeeds the position is closed in the same step.
C6_StopLossLiquidates ==
    [][/\ \A t \in Ticks, p \in Prices :
            (/\ PriceReturn(t, p)
             /\ tick[t].hash \in activeTrades
             /\ stopLosses[tick[t].hash] # Absent
             /\ p <= stopLosses[tick[t].hash])
                => /\ tick'[t].pc = "stopSell"
                   /\ tick'[t].hash = tick[t].hash
                   /\ tick'[t].amount = tradeObj[tick[t].hash].positionSize
       /\ \A t \in Ticks :
            StopSellReturn(t, "ok")
                => /\ tick[t].hash \notin activeTrades'
                   /\ tick[t].hash \notin profitTargets'
                   /\ stopLosses'[tick[t].hash] = Absent]_vars

\* C7: once closeTrade has removed a position, no sell request goes out for
\* it and no monitor tick starts evaluating it.
C7_ClosedIsTerminal ==
    [][\A h \in Hashes :
        Closed(h) => /\ ~IssuesFull(h)
                     /\ \A r \in Rungs : ~IssuesPartial(h, r)
                     /\ ~StartsEval(h)]_vars

\* C8: at most one full-liquidation sell of a position succeeds.
C8_OneLiquidation ==
    [][/\ \A t \in Ticks : StopSellReturn(t, "ok") => ~liquidated[tick[t].hash]
       /\ CloseSellReturn("ok") => ~liquidated[closer.hash]]_vars

\* C9: the amount of a rung's partial sell is the rung's release fraction of
\* the position's size at entry.
C9_SellOfOriginalSize ==
    \A t \in Ticks :
        tick[t].pc = "partialSell" =>
            tick[t].amount * 10 =
                targetObj[tick[t].hash][tick[t].rung].size * tradeObj[tick[t].hash].origSize

\* C10: when every rung has been hit by a successful sell, nothing of the
\* position remains and the position is closed.
C10_LadderDoneCloses ==
    \A h \in Hashes :
        (tradeObj[h] # NoTrade /\ \A r \in Rungs : targetObj[h][r].hit /\ r \in soldOk[h])
            => tradeObj[h].positionSize = 0 /\ h \notin activeTrades

\* C11: the remaining size of a position never grows and never becomes
\* negative, and after the first successful sell of the first rung it is 0.7
\* of the size at entry.
C11_RemainingSize ==
    [][\A h \in Hashes :
        tradeObj[h] # NoTrade =>
            /\ tradeObj'[h].positionSize <= tradeObj[h].positionSize
            /\ tradeObj'[h].positionSize >= 0
            /\ \A t \in Ticks :
                  (/\ PartialSellReturn(t, "ok")
                   /\ tick[t].hash = h /\ tick[t].rung = 1
                   /\ soldOk[h] = {})
                      => tradeObj'[h].positionSize * 10 = 7 * tradeObj[h].origSize]_vars

\* the contract of an assessed analysis is verified / audited (the flags are
\* at the top level of the object or under `contract`)
Verified(an) ==
    IF an.isVerified = "undefined" THEN an.contract.isVerified ELSE an.isVerified = "true"
Audited(an) ==
    IF an.isAudited = "undefined" THEN an.contract.isAudited ELSE an.isAudited = "true"

\* the liquidity amount of an assessed analysis
AssessedLiquidity(an) == an.liquidity.value

\* one of the four rejection conditions holds for a decided assessment
MustReject(d) ==
    \/ d.riskScore > 70
    \/ NumLess(d.profitPotential, 200)
    \/ ~Verified(d.full) /\ ~Audited(d.full)
    \/ AssessedLiquidity(d.full) < minLiquidity

\* C12: the decision rejects every assessment with riskScore > 70, or
\* profitPotential < 200, or a contract neither verified nor audited, or a
\* liquidity below the configured minimum.
C12_GateRejects ==
    \A a \in Analyses :
        (assessment[a].stage = "decided" /\ MustReject(assessment[a]))
            => ~assessment[a].shouldTrade /\ analysis[a].pc # "buy"

\* C12 witness: risk 80, profit 300, verified, enough liquidity and a good
\* sentiment: rejected, and only for the risk.
C12_Witness ==
    \E a \in Analyses :
        /\ assessment[a].stage = "decided"
        /\ assessment[a].riskScore = 80
        /\ assessment[a].profitPotential = 300
        /\ assessment[a].full.isVerified = "true"
        /\ AssessedLiquidity(assessment[a].full) >= minLiquidity
        /\ assessment[a].sentiment.score >= 60
        /\ ~assessment[a].shouldTrade

\* C13: the decision accepts every assessment of the analysis pipeline with
\* riskScore <= 70, profitPotential >= 200, a contract verified or audited
\* and a liquidity of at least the configured minimum.
C13_GateAccepts ==
    \A a \in Analyses :
        (assessment[a].stage = "decided" /\ ~MustReject(assessment[a]))
            => assessment[a].shouldTrade

\* C14: no buy is executed for a token whose full contract analysis reports
\* isHoneypot = true, the default of a failed contract analysis included.
C14_NoHoneypotBuy ==
    \A a \in Analyses :
        (/\ assessment[a].stage # "none"
         /\ assessment[a].full.contract.isHoneypot)
            => /\ analysis[a].pc # "buy"
               /\ assessment[a].stage = "decided" => ~assessment[a].shouldTrade

\* C14 witness: the contract analysis failed, its default says honeypot, the
\* risk, profit and sentiment are all good, and the token is rejected.
C14_Witness ==
    \E a \in Analyses :
        /\ assessment[a].stage = "decided"
        /\ assessment[a].full.contract.isHoneypot
        /\ assessment[a].full.contract.riskFactors = <<"analysis_failed">>
        /\ assessment[a].riskScore = 20
        /\ ~NumLess(assessment[a].profitPotential, 200)
        /\ assessment[a].sentiment.score >= 60
        /\ ~assessment[a].shouldTrade

\* a second call of the decision on the inputs of a decided assessment
DecidesAgain(d) ==
    makeTradingDecision(d.full, d.sentiment, d.riskScore, d.profitPotential)

\* a second call returns what the call of each decided assessment returned
SameDecision ==
    \A a \in Analyses :
        assessment[a].stage = "decided"
            => DecidesAgain(assessment[a]) = assessment[a].shouldTrade

Submits(maxTrades) ==
    \E s \in Scans, c \in QuickChecks, ts \in Times :
        IsPromising(c) /\ AnalyzeAndQueue(s, c, ts, maxTrades)

\* the submitted candidate was taken: it is in the queue or in analysis
Taken ==
    \/ Len(tokenQueue') > Len(tokenQueue)
    \/ \E a \in Analyses : analysis[a].pc = "idle" /\ analysis'[a].pc = "analysis"

\* the queue of a sniper configured with maxTrades is bounded and rejects
\* at capacity
QueueBounded(maxTrades) ==
    /\ Len(tokenQueue') <= maxTrades
    /\ (Submits(maxTrades) /\ Len(tokenQueue) >= maxTrades) => tokenQueue' = tokenQueue
    /\ (Submits(maxTrades) /\ Len(tokenQueue) < maxTrades) => Taken

\* C16: tokenQueue never holds more than the configured maximum; a candidate
\* submitted while the queue is at the maximum is not enqueued and no entry
\* is dropped; a candidate submitted below the maximum is taken.
C16_QueueBounded == [][QueueBounded(NoCapacity)]_vars

\* entry i of queue q has the highest initialScore and, among the entries of
\* that score, the earliest timestamp
Best(q, i) ==
    \A j \in 1..Len(q) :
        /\ q[j].initialScore <= q[i].initialScore
        /\ q[j].initialScore = q[i].initialScore => q[i].timestamp <= q[j].timestamp

\* how often entry e is in queue q
Count(q, e) == Cardinality({k \in 1..Len(q) : q[k] = e})

\* queue r is queue q without entry i, every other entry kept
Without(q, i, r) ==
    /\ Len(r) = Len(q) - 1
    /\ \A k \in 1..Len(q) :
          Count(r, q[k]) = Count(q, q[k]) - (IF q[k] = q[i] THEN 1 ELSE 0)

\* C17: processTokenQueue removes the entry with the highest initialScore,
\* the earliest of them when several have it, and hands it to the detailed
\* analysis; all other entries stay in the queue.
C17_RemovesBest ==
    [][tokenQueue' # tokenQueue =>
          \E i \in 1..Len(tokenQueue) :
              /\ Best(tokenQueue, i)
              /\ Without(tokenQueue, i, tokenQueue')
              /\ \E a \in Analyses :
                    /\ analysis[a].pc = "idle"
                    /\ analysis'[a].pc = "analysis"
                    /\ analysis'[a].token = tokenQueue[i].token]_vars

\* C17 witness: one of three entries was taken into analysis and the two
\* left behind are a lower score and a later timestamp, in an order the
\* sort had to produce.
C17_Witness ==
    /\ Len(tokenQueue) = 2
    /\ \E a \in Analyses : analysis[a].pc = "analysis"
    /\ tokenQueue[1].initialScore > tokenQueue[2].initialScore
    /\ tokenQueue[1].timestamp > tokenQueue[2].timestamp

\* C18: performQuickAnalysis admits a candidate exactly when its quick score
\* is at least 70, it is not a honeypot and it has liquidity, whatever the
\* four checks resolve to: the candidate of a quick analysis that settles
\* with checks c is taken on if and only if that holds of c.
C18_AdmissionRule ==
    [][\A s \in Scans, ts \in Times :
          ScreenReturn(s, screened', ts)
              => LET c == QuickChecksOf(screened')
                 IN Taken <=> (/\ QuickScore(c) >= 70
                               /\ ~c.isHoneypot
                               /\ c.hasLiquidity)]_vars

\* C18 witness: a honeypot with liquidity, a young contract and a renounced
\* owner (score 70) was screened and not admitted.
C18_Witness ==
    /\ screened = [honeypot |-> "honeypot", liquidity |-> "liquid",
                   age |-> "young", ownership |-> "renounced"]
    /\ QuickScore(QuickChecksOf(screened)) >= 70
    /\ tokenQueue = <<>>
    /\ \A a \in Analyses : analysis[a].pc = "idle"

\* the pessimistic report in place of each detector that throws
Pessimistic(o) ==
    [honeypot  |-> IF o.honeypot = "throws" THEN "honeypot" ELSE o.honeypot,
     liquidity |-> IF o.liquidity = "throws" THEN "dry" ELSE o.liquidity,
     age       |-> IF o.age = "throws" THEN "old" ELSE o.age,
     ownership |-> IF o.ownership = "throws" THEN "owned" ELSE o.ownership]

\* C19: the quick screening is fail-closed.  A quick analysis whose honeypot
\* or liquidity detector throws does not admit the candidate, and one that
\* admits a candidate with some detector throwing would have admitted it on
\* the pessimistic report of that detector.
C19_FailClosed ==
    [][\A s \in Scans, ts \in Times :
          ScreenReturn(s, screened', ts) =>
              /\ (screened'.honeypot = "throws" \/ screened'.liquidity = "throws")
                    => ~Taken
              /\ Taken => IsPromising(QuickChecksOf(Pessimistic(screened')))]_vars

\* C19 witness: the honeypot detector threw on a candidate that every other
\* check speaks for, and the candidate was not admitted.
C19_Witness ==
    /\ screened = [honeypot |-> "throws", liquidity |-> "liquid",
                   age |-> "young", ownership |-> "renounced"]
    /\ tokenQueue = <<>>
    /\ \A a \in Analyses : analysis[a].pc = "idle"

\* the full analysis has every part
Complete(full) ==
    {"contract", "liquidity", "social", "risk", "score", "profitPotential"}
        \subseteq DOMAIN full

\* C20: performFullAnalysis resolves with a complete analysis whichever of
\* its sub-analyses fail: the detailed analysis goes on with it, and a failed
\* sub-analysis is in it as its pessimistic default (a failed contract
\* analysis as a honeypot, not verified, not audited, audit score 0 and the
\* risk factor 'analysis_failed').
C20_CompleteAnalysis ==
    [][\A a \in Analyses :
          analysis[a].pc = "analysis" =>
          \A c \in ContractChecks, l \in LiquidityChecks,
             s \in SocialChecks, r \in RiskChecks :
              FullAnalysisReturn(a, AsRead(performFullAnalysis(c, l, s, r))) =>
                  LET d == assessment'[a]
                  IN /\ analysis'[a].pc = "assess"
                     /\ d.stage = "analysed"
                     /\ Complete(d.full)
                     /\ c.throws =>
                           /\ d.full.contract.isHoneypot
                           /\ ~d.full.contract.isVerified
                           /\ ~d.full.contract.isAudited
                           /\ d.full.contract.auditScore = 0
                           /\ d.full.contract.riskFactors = <<"analysis_failed">>
                     /\ l.throws =>
                           /\ ~d.full.liquidity.hasLiquidity
                           /\ d.full.liquidity.value = 0
                           /\ d.full.liquidity.priceImpact = 100
                           /\ d.full.liquidity.quality = "poor"
                     /\ s.throws =>
                           /\ d.full.social.score = 50
                           /\ d.full.social.sentiment = "neutral"]_vars

\* C20 witness: the contract, liquidity and social analyses all failed and
\* the detailed analysis has the full analysis made of their defaults.
C20_Witness ==
    \E a \in Analyses :
        /\ analysis[a].pc = "assess"
        /\ assessment[a].stage = "analysed"
        /\ assessment[a].full.contract.riskFactors = <<"analysis_failed">>
        /\ assessment[a].full.liquidity.quality = "poor"
        /\ assessment[a].full.liquidity.value = 0
        /\ assessment[a].full.social.score = 50
        /\ assessment[a].full.score = 10
        /\ assessment[a].full.risk = 100

\* C21: the profit potential that performDetailedAnalysis hands to
\* makeTradingDecision (and executeTrade to calculatePositionSize and
\* setProfitTargets) is a number in [100, 2000], for every analysis that
\* performFullAnalysis produces.
C21_PotentialInRange ==
    \A a \in Analyses :
        /\ assessment[a].stage = "decided"
              => /\ assessment[a].profitPotential # NaN
                 /\ assessment[a].profitPotential >= 100
                 /\ assessment[a].profitPotential <= 2000
        /\ analysis[a].pc = "buy"
              => /\ analysis[a].profitPotential # NaN
                 /\ analysis[a].profitPotential >= 100
                 /\ analysis[a].profitPotential <= 2000

\* C22: in the composite score of every assessment the contract terms give
\* at most 40 points, the liquidity terms at most 30, the social signal at
\* most 20, and every risk factor takes exactly 2 points off.
C22_ScoreWeights ==
    [][\A a \in Analyses :
          analysis[a].pc = "analysis" =>
          \A c \in ContractChecks, l \in LiquidityChecks,
             s \in SocialChecks, r \in RiskChecks :
              FullAnalysisReturn(a, AsRead(performFullAnalysis(c, l, s, r))) =>
                  LET full == assessment'[a].full
                      cp   == contractPoints(full.contract)
                      lp   == liquidityPoints(full.liquidity)
                      sp   == socialPoints(full.social)
                      n    == Len(analyzeRiskFactors(r).factors)
                  IN /\ cp <= 40
                     /\ lp <= 30
                     /\ sp <= 20
                     /\ full.score = Max(0, Min(100, cp + lp + sp - 2 * n))]_vars

\* C23: the composite score and the risk score of every full analysis lie
\* in [0, 100], whatever the sub-analyses gave and however many risk factors
\* there are.
C23_ScoresInRange ==
    \A a \in Analyses :
        assessment[a].stage = "analysed" =>
            /\ assessment[a].full.score >= 0
            /\ assessment[a].full.score <= 100
            /\ assessment[a].full.risk >= 0
            /\ assessment[a].full.risk <= 100

\* an analysis whose risk terms add up to more than 100
C23_Witness ==
    \E a \in Analyses :
        /\ assessment[a].stage = "analysed"
        /\ LET full == assessment[a].full
           IN /\ full.contract.isHoneypot
              /\ ~full.contract.renounced
              /\ ~full.liquidity.hasLiquidity
              /\ full.liquidity.quality = "poor"
              /\ full.risk = 100

\* C24: the position size that executeTrade takes from calculatePositionSize
\* lies within [minBuyAmount, maxBuyAmount], for every profit potential and
\* every risk.
C24_SizeInRange ==
    \A a \in Analyses :
        analysis[a].pc = "buy" =>
            /\ analysis[a].positionSize >= MinBuyAmount
            /\ analysis[a].positionSize <= MaxBuyAmount

\* the sizes of the rungs of a ladder added up, in tenths
RECURSIVE SizeSum(_)
SizeSum(targets) ==
    IF targets = <<>> THEN 0 ELSE Head(targets).size + SizeSum(Tail(targets))

\* C25: the release fractions of the profit ladder of every position,
\* whether executeTrade or loadExistingTrades made it, add up to exactly 1.
C25_FractionsSumToOne ==
    \A h \in profitTargets : SizeSum(targetObj[h]) = 10

\* a loaded position and one bought by executeTrade, each with its ladder
C25_Witness ==
    \E h1, h2 \in profitTargets :
        /\ h1 \in activeTrades /\ h2 \in activeTrades
        /\ tradeObj[h1].origSize = MinBuyAmount
        /\ tradeObj[h2].origSize = calculatePositionSize(200, 20)
        /\ Len(targetObj[h1]) = 3 /\ Len(targetObj[h2]) = 3

\* the gain thresholds of a ladder rise from each rung to the next
Ascending(targets) ==
    \A i \in 1..(Len(targets) - 1) : targets[i].percentage < targets[i + 1].percentage

C27_StopBelowEntry ==
    [][\A h \in Hashes :
          /\ (stopLosses[h] = Absent /\ stopLosses'[h] # Absent
                 /\ tradeObj'[h].entryPrice > 0)
                => stopLosses'[h] < tradeObj'[h].entryPrice
          /\ (stopLosses[h] # Absent /\ stopLosses'[h] # Absent)
                => stopLosses'[h] >= stopLosses[h]]_vars

\* a position that a monitor tick has evaluated, its stop below the entry
C27_Witness ==
    \E h \in activeTrades :
        /\ tradeObj[h].entryPrice > 0
        /\ tradeObj[h].hasProfit
        /\ stopLosses[h] # Absent
        /\ stopLosses[h] < tradeObj[h].entryPrice

\* the trailing distance, in percent of the price
TrailingPercent == 15

\* the stop-loss price ratcheted up by an observed price
Ratcheted(stopLoss, price) == Max(stopLoss, (price * (100 - TrailingPercent)) \div 100)

\* C28: after each tick that observes the price p of a position, the
\* stop-loss price of the position is max(previous stop, p * (1 - trailing
\* percent)), and a price at or below the stop reached so far makes the tick
\* request the full liquidation.
C28_TrailingStop ==
    [][\A t \in Ticks, p \in Prices :
          (/\ Truthy(p)
           /\ tick[t].pc = "price"
           /\ stopLosses[tick[t].hash] # Absent
           /\ PriceReturn(t, p))
          => /\ stopLosses'[tick[t].hash] = Ratcheted(stopLosses[tick[t].hash], p)
             /\ p <= stopLosses[tick[t].hash] => IssuesFull(tick[t].hash)]_vars

\* the longest time a position is held, in seconds
MaxHoldSeconds == 3600

\* seconds between the opening of a position and a tick that evaluates it
HoldTimes == {5, MaxHoldSeconds, MaxHoldSeconds + 5}

\* C29: a tick that evaluates a position more than maxHoldSeconds after it
\* was opened requests the full liquidation, whatever the profit or loss.
\* (monitorTrade reads neither the clock nor trade.timestamp: the step it
\* takes is the same for every hold time.)
C29_TimeBasedExit ==
    [][\A t \in Ticks, p \in Prices, held \in HoldTimes :
          (/\ held > MaxHoldSeconds
           /\ Truthy(p)
           /\ tick[t].pc = "price"
           /\ tick[t].hash \in activeTrades
           /\ PriceReturn(t, p))
          => IssuesFull(tick[t].hash)]_vars

\* the sell of a full liquidation settles without success
FailedSells == {"fail", "throw"}

\* the maps of the positions are what they were
PositionKept ==
    /\ activeTrades' = activeTrades
    /\ profitTargets' = profitTargets
    /\ targetObj' = targetObj
    /\ stopLosses' = stopLosses

LiveScans == 1..(MaxScans + 1)

\* a price that reaches the first rung
LivePrices == {151}

\* The two loops share no state (no analysis of the pipeline ends in a trade),
\* so they are followed one at a time: the chains list new tokens to a sniper
\* started on an empty database, and none to one started on persisted trades.
LiveTokenLists(net) ==
    IF \A h \in Hashes : tradeObj[h] = NoTrade THEN TokenLists(net) ELSE {<<>>}

\* start() has returned, on an empty database or on one of MaxTrades
\* persisted trades
LiveInit ==
    /\ initialized = TRUE
    /\ isRunning = TRUE
    /\ scanInterval = TRUE
    /\ monitoring = TRUE
    /\ \E n \in {0, MaxTrades}, ep \in EntryPrices, pp \in ProfitPotentials :
         /\ activeTrades = 1..n
         /\ tradeObj = [h \in Hashes |->
                IF h <= n
                THEN [token |-> PersistedToken(h), entryPrice |-> ep,
                      positionSize |-> MinBuyAmount, origSize |-> MinBuyAmount,
                      profitPotential |-> pp, hasProfit |-> FALSE]
                ELSE NoTrade]
         /\ profitTargets = 1..n
         /\ targetObj = [h \in Hashes |-> IF h <= n THEN Targets(pp) ELSE Targets(0)]
         /\ stopLosses = [h \in Hashes |->
                IF h <= n THEN StopLossPrice(ep) ELSE Absent]
    /\ tick = [t \in Ticks |-> IdleTick]
    /\ closer = IdleCloser
    /\ soldOk = [h \in Hashes |-> {}]
    /\ liquidated = [h \in Hashes |-> FALSE]
    /\ stopFailed = [h \in Hashes |-> FALSE]
    /\ tokenQueue = <<>>
    /\ scan = [s \in LiveScans |-> IdleScan]
    /\ analysis = [a \in Analyses |-> IdleAnalysis]
    /\ assessment = [a \in Analyses |-> NoAssessment]
    /\ screened = NoOutcomes
    /\ app = AppListening
    /\ capacity = maxConcurrentTrades

\* the awaited calls of the monitor tick in slot t settle
TickSettles(t) ==
    \/ \E p \in LivePrices \cup {PriceThrow} : PriceReturn(t, p)
    \/ \E o \in SellOutcomes : PartialSellReturn(t, o)
    \/ PartialNotifyReturn(t)

\* the awaited calls of the scan in slot s settle
ScanSlotSettles(s) ==
    \/ \E toks \in UNION {LiveTokenLists(n) : n \in 1..Len(Networks)} :
           ScanReturn(s, toks)
    \/ \E c \in QuickChecks, ts \in Times : QuickReturn(s, c, ts)

\* the awaited calls of the analysis in slot a settle
AnalysisSlotSettles(a) ==
    \/ AnalysisThrows(a)
    \/ \E an \in PipelineAnalyses, sentiment \in Sentiments,
          riskScore \in RiskScores, signals \in Signals :
           AnalysisReturn(a, an, sentiment, riskScore, calculatePotential(an, signals))

LiveScanFires == \E s \in LiveScans : ScanFire(s)
LiveTickSettles == \E t \in Ticks : TickSettles(t)
LiveScanSettles == \E s \in LiveScans : ScanSlotSettles(s)
LiveAnalysisSettles == \E a \in Analyses : AnalysisSlotSettles(a)

NextLive ==
    \/ MonitorFires
    \/ LiveTickSettles
    \/ LiveScanFires
    \/ LiveScanSettles
    \/ LiveAnalysisSettles

\* slot 1 is where a call may never return
Returning(slots) == slots \ {1}

LiveSpec ==
    /\ LiveInit
    /\ [][NextLive]_vars
    /\ WF_vars(MonitorFires)
    /\ WF_vars(LiveScanFires)
    /\ \A t \in Returning(Ticks) : WF_vars(TickSettles(t))
    /\ \A s \in Returning(LiveScans) : WF_vars(ScanSlotSettles(s))
    /\ \A a \in Returning(Analyses) : WF_vars(AnalysisSlotSettles(a))

\* the scan in slot s screens a candidate
Screens(s) == \E c \in QuickChecks, ts \in Times : QuickReturn(s, c, ts)

\* C31: a call that never returns for one position or candidate holds up its
\* own callback only.  Every position that stays open is taken up by a monitor
\* tick again and again, scans keep starting, and a scan whose calls return
\* is not left with a candidate waiting: it screens again and again, or from
\* some point on it has none to screen.
C31_StalledCallIsolated ==
    /\ \A h \in Hashes :
         <>[](h \in activeTrades) => []<><<StartsEval(h)>>_vars
    /\ []<><<LiveScanFires>>_vars
    /\ \A s \in Returning(LiveScans) :
         []<><<Screens(s)>>_vars \/ <>[](scan[s].pc # "quick")

\* C31 witness: the tick in slot 1 awaits the price of one position while a
\* later tick has gone on to another position
C31_Witness ==
    \E t \in Returning(Ticks) :
        /\ tick[1].pc = "price"
        /\ tick[t].pc \in {"price", "partialSell"}
        /\ tick[t].hash # tick[1].hash

\* a monitor tick or a scan returns to the event loop
TickEnds(t) == tick[t].pc # "idle" /\ tick'[t].pc = "idle"
ScanEnds(s) == scan[s].pc # "idle" /\ scan'[s].pc = "idle"

\* C32: an exception raised for one candidate or position ends neither its
\* callback nor the loop.  A monitor tick returns only from the last position
\* of activeTrades and a scan only from the last candidate of the last
\* network, whatever was thrown on the way; and ticks and scans keep starting.
C32_ExceptionIsolated ==
    /\ [][/\ \A t \in Ticks :
               TickEnds(t) => NextKey(activeTrades', tick[t].hash) = NoHash
          /\ \A s \in LiveScans :
               ScanEnds(s) => /\ scan[s].net = Len(Networks)
                              /\ Len(scan[s].todo) <= 1]_vars
    /\ []<><<MonitorFires>>_vars \/ <>[](activeTrades = {})
    /\ []<><<LiveScanFires>>_vars

\* C32 witness: getCurrentPrice has thrown for the first position (it was
\* left without a currentProfit) and the same tick is on the second one
C32_Witness ==
    \E t \in Ticks :
        /\ tick[t].pc = "price"
        /\ tick[t].hash = MaxTrades
        /\ 1 \in activeTrades
        /\ ~tradeObj[1].hasProfit
        /\ \A u \in Ticks \ {t} : tick[u].pc = "idle"

\* the performDetailedAnalysis calls that have not returned
InFlight == {a \in Analyses : analysis[a].pc # "idle"}

\* C33: the number of detailed analyses in flight never exceeds
\* config.sniper.maxConcurrentTrades.
C33_AnalysesBounded == Cardinality(InFlight) <= maxConcurrentTrades

\* stop() has been called and start() has not been called since
Stopped == initialized /\ ~isRunning

\* work taken up in a step: a chain is scanned, a candidate is screened, a
\* detailed analysis is started, a position is taken up by a monitor tick
ScansChain(s) ==
    scan'[s].pc = "scan" /\ ~(scan[s].pc = "scan" /\ scan[s].net = scan'[s].net)
ScreensNext(s) == scan'[s].pc = "quick" /\ scan'[s] # scan[s]
StartsAnalysis(a) == analysis[a].pc = "idle" /\ analysis'[a].pc # "idle"

\* C34: between stop() and the next start() no scan tick and no monitor tick
\* begins new work (no chain is scanned, no candidate screened, no detailed
\* analysis started, no position taken up) and no position is opened.
C34_QuietAfterStop ==
    [][Stopped =>
         /\ \A s \in Scans : ~ScansChain(s) /\ ~ScreensNext(s)
         /\ \A a \in Analyses : ~StartsAnalysis(a)
         /\ \A h \in Hashes : ~StartsEval(h)
         /\ activeTrades' \subseteq activeTrades]_vars

\* closeAllTrades and a monitor tick are both inside a call for position h
Overlap(h) ==
    /\ closer.pc # "idle" /\ closer.hash = h
    /\ \E t \in Ticks : tick[t].pc # "idle" /\ tick[t].hash = h

\* C35: closeAllTrades starts only when no monitor evaluation is in flight,
\* and it never works on a position while a monitor tick works on the same
\* position.
C35_ExclusiveMutation ==
    [][/\ (closer.pc = "idle" /\ closer'.pc # "idle") =>
              \A t \in Ticks : tick[t].pc = "idle"
       /\ \A h \in Hashes : ~Overlap(h)']_vars

\* ------------------------------------------------- the hosting process
\* CoinSniper: initialize(), start() (listen, then the SIGTERM and SIGINT
\* handlers) and gracefulShutdown().  process.exit ends every task.
HardDeadline == 10

\* keep-alive connections the server holds
MaxConnections == 2

sniperVars == <<initialized, isRunning, scanInterval, monitoring, activeTrades,
                tradeObj, profitTargets, targetObj, stopLosses, tick, closer, soldOk,
                liquidated, stopFailed, tokenQueue, scan, analysis, assessment,
                screened, capacity>>

Alive == app.phase # "exited"

\* process.exit(code)
Exit(a, code) == [a EXCEPT !.phase = "exited", !.code = code]

\* gracefulShutdown without its setTimeout
gracefulShutdownNoDeadline(a) ==
    [a EXCEPT !.phase = IF a.phase = "listening" THEN "closing" ELSE a.phase,
              !.signal = TRUE]

\* gracefulShutdown: server.close(callback) if there is a server, and the
\* timer of the forced exit (a later call arms a later timer: the earliest
\* one counts)
gracefulShutdown(a) ==
    [a EXCEPT !.phase = IF a.phase = "listening" THEN "closing" ELSE a.phase,
              !.armed = TRUE,
              !.left = IF a.armed THEN a.left ELSE HardDeadline,
              !.signal = TRUE]

\* initializeServices rejects: the catch of initialize() calls process.exit(1)
AppInitFails ==
    /\ app.phase = "starting"
    /\ app' = Exit(app, "1")
    /\ UNCHANGED sniperVars

\* initialize() has returned (initializeSniper among its services); start()
\* calls listen and installs the signal handlers
AppListen ==
    /\ app.phase = "starting"
    /\ initialized
    /\ app' = [app EXCEPT !.phase = "listening"]
    /\ UNCHANGED sniperVars

\* a client opens a keep-alive connection
Connect ==
    /\ app.phase = "listening"
    /\ app.conns < MaxConnections
    /\ app' = [app EXCEPT !.conns = @ + 1]
    /\ UNCHANGED sniperVars

\* a client closes its connection
Disconnect ==
    /\ app.phase \in {"listening", "closing"}
    /\ app.conns > 0
    /\ app' = [app EXCEPT !.conns = @ - 1]
    /\ UNCHANGED sniperVars

\* SIGTERM or SIGINT arrives: gracefulShutdown once the handlers are
\* installed, the default disposition (the process is killed) before
Signal ==
    /\ Alive
    /\ app' = IF app.phase = "starting"
              THEN Exit([app EXCEPT !.signal = TRUE], "signal")
              ELSE gracefulShutdown(app)
    /\ UNCHANGED sniperVars

\* the server's 'close' event: no connection is left; the callback exits
ServerClosed ==
    /\ app.phase = "closing"
    /\ app.conns = 0
    /\ app' = Exit(app, "0")
    /\ UNCHANGED sniperVars

\* a second of the forced-exit timer elapses
SecondPasses ==
    /\ Alive
    /\ app.armed
    /\ app.left > 0
    /\ app' = [app EXCEPT !.left = @ - 1]
    /\ UNCHANGED sniperVars

\* the forced-exit timer fires
DeadlineExpires ==
    /\ Alive
    /\ app.armed
    /\ app.left = 0
    /\ app' = Exit(app, "1")
    /\ UNCHANGED sniperVars

\* the process from its launch, hosting a sniper with one persisted position;
\* the sniper's calls may return or not
ShutdownInit ==
    /\ initialized = FALSE
    /\ isRunning = FALSE
    /\ scanInterval = FALSE
    /\ monitoring = FALSE
    /\ activeTrades = {}
    /\ tradeObj = [h \in Hashes |-> NoTrade]
    /\ profitTargets = {}
    /\ targetObj = [h \in Hashes |-> Targets(0)]
    /\ stopLosses = [h \in Hashes |-> Absent]
    /\ tick = [t \in Ticks |-> IdleTick]
    /\ closer = IdleCloser
    /\ soldOk = [h \in Hashes |-> {}]
    /\ liquidated = [h \in Hashes |-> FALSE]
    /\ stopFailed = [h \in Hashes |-> FALSE]
    /\ tokenQueue = <<>>
    /\ scan = [s \in Scans |-> IdleScan]
    /\ analysis = [a \in Analyses |-> IdleAnalysis]
    /\ assessment = [a \in Analyses |-> NoAssessment]
    /\ screened = NoOutcomes
    /\ app = AppStarting
    /\ capacity = maxConcurrentTrades

HostedLoad == Alive /\ LoadOneTrade
HostedStart == Alive /\ app.phase = "listening" /\ Start
HostedTickFires == Alive /\ MonitorFires
HostedTickSettles == Alive /\ LiveTickSettles

NextShutdown ==
    \/ HostedLoad
    \/ HostedStart
    \/ HostedTickFires
    \/ HostedTickSettles
    \/ AppInitFails
    \/ AppListen
    \/ Connect
    \/ Disconnect
    \/ Signal
    \/ ServerClosed
    \/ SecondPasses
    \/ DeadlineExpires

\* timers fire: time passes and an expired timer runs its callback
ShutdownSpec ==
    /\ ShutdownInit
    /\ [][NextShutdown]_vars
    /\ WF_vars(SecondPasses)
    /\ WF_vars(DeadlineExpires)

\* C36: once a shutdown signal has been received the process terminates,
\* whether or not the server gets closed and the pending calls return.
C36_ShutdownTerminates == app.signal ~> app.phase = "exited"

\* C36 witness: the forced exit, with a connection still open and a monitor
\* tick still awaiting its call
C36_Witness ==
    /\ app.signal
    /\ app.phase = "exited"
    /\ app.code = "1"
    /\ app.conns > 0
    /\ \E t \in Ticks : tick[t].pc # "idle"

\* ------------------------------------------------------------- restart
\* The process is restarted and initialize() runs again: every field has its
\* constructor value, getActiveTrades returns the positions that were open,
\* as they were saved at entry (saveTrade is called by executeTrade only), and
\* loadExistingTrades gives each of them setProfitTargets' ladder and stop.
Rehydrate ==
    /\ initialized
    /\ activeTrades # {}
    /\ initialized' = TRUE
    /\ isRunning' = FALSE
    /\ scanInterval' = FALSE
    /\ monitoring' = FALSE
    /\ activeTrades' = activeTrades
    /\ tradeObj' = [h \in Hashes |->
           IF h \in activeTrades
           THEN [tradeObj[h] EXCEPT !.positionSize = tradeObj[h].origSize,
                                    !.hasProfit = FALSE]
           ELSE tradeObj[h]]
    /\ profitTargets' = activeTrades
    /\ targetObj' = [h \in Hashes |->
           IF h \in activeTrades THEN Targets(tradeObj[h].profitPotential)
           ELSE targetObj[h]]
    /\ stopLosses' = [h \in Hashes |->
           IF h \in activeTrades THEN StopLossPrice(tradeObj[h].entryPrice)
           ELSE Absent]
    /\ tick' = [t \in Ticks |-> IdleTick]
    /\ closer' = IdleCloser
    /\ tokenQueue' = <<>>
    /\ scan' = [s \in Scans |-> IdleScan]
    /\ analysis' = [a \in Analyses |-> IdleAnalysis]
    /\ assessment' = [a \in Analyses |-> NoAssessment]
    /\ UNCHANGED <<screened, soldOk, liquidated, stopFailed, app, capacity>>

\* Persisted positions through monitor ticks and restarts.
NextRestart ==
    \/ LoadTrades
    \/ Start
    \/ MonitorFires
    \/ LiveTickSettles
    \/ Rehydrate

RestartSpec == Init /\ [][NextRestart]_vars

\* C37: rehydration preserves the lifecycle state.  No sell goes out for a
\* rung whose sell has already succeeded, and a restart does not lower the
\* stop-loss price of a position.
C37_RehydrationPreservesState ==
    [][/\ \A h \in Hashes, r \in Rungs : r \in soldOk[h] => ~IssuesPartial(h, r)
       /\ Rehydrate => \A h \in activeTrades : stopLosses'[h] >= stopLosses[h]]_vars

\* The life of a position opened by executeTrade: one accepted analysis, the
\* buy, monitor ticks at prices that reach a rung and the stop-loss, and the
\* shutdown.
LifecyclePrices == {40, 151}

LifecycleTickSettles ==
    \/ \E t \in Ticks, p \in LifecyclePrices \cup {PriceThrow} : PriceReturn(t, p)
    \/ PartialSellSettles
    \/ PartialNotifySettles
    \/ StopSellSettles
    \/ StopNotifySettles

NextLifecycle ==
    \/ GateAnalysisSettles
    \/ BuySettles
    \/ MonitorFires
    \/ LifecycleTickSettles
    \/ Stop
    \/ CloseSellSettles
    \/ CloseNotifyReturn

LifecycleSpec == GateInit /\ [][NextLifecycle]_vars

\* the keys of this.stopLosses
StopKeys == {h \in Hashes : stopLosses[h] # Absent}

\* C38: wherever control returns to the event loop, activeTrades,
\* profitTargets and stopLosses have the same keys.
C38_SameKeys == activeTrades = profitTargets /\ profitTargets = StopKeys

\* C38 witness: a position opened by executeTrade has been sold out and
\* closed, and none of the three maps has a key
C38_Witness ==
    /\ \E h \in Hashes : liquidated[h] /\ tradeObj[h] # NoTrade
    /\ activeTrades = {}
    /\ profitTargets = {}
    /\ StopKeys = {}

\* ------------------------------------------------- the queue and its limit
\* The configurations of config.sniper.maxConcurrentTrades the intake is run
\* with: none, the configured one, and one more.
Capacities == {NoCapacity, maxConcurrentTrades, maxConcurrentTrades + 1}

\* performQuickAnalysis settles in a sniper configured with `capacity`
QuickReturnConfigured(s, c, ts) ==
    /\ AnalyzeAndQueue(s, c, ts, capacity)
    /\ UNCHANGED screened

ConfiguredQuickSettles ==
    \E s \in Scans, c \in QuickChecks, ts \in Times : QuickReturnConfigured(s, c, ts)

\* start() has returned on an empty database
CapacityInit ==
    /\ initialized = TRUE
    /\ isRunning = TRUE
    /\ scanInterval = TRUE
    /\ monitoring = TRUE
    /\ activeTrades = {}
    /\ tradeObj = [h \in Hashes |-> NoTrade]
    /\ profitTargets = {}
    /\ targetObj = [h \in Hashes |-> Targets(0)]
    /\ stopLosses = [h \in Hashes |-> Absent]
    /\ tick = [t \in Ticks |-> IdleTick]
    /\ closer = IdleCloser
    /\ soldOk = [h \in Hashes |-> {}]
    /\ liquidated = [h \in Hashes |-> FALSE]
    /\ stopFailed = [h \in Hashes |-> FALSE]
    /\ tokenQueue = <<>>
    /\ scan = [s \in Scans |-> IdleScan]
    /\ analysis = [a \in Analyses |-> IdleAnalysis]
    /\ assessment = [a \in Analyses |-> NoAssessment]
    /\ screened = NoOutcomes
    /\ app = AppListening
    /\ capacity \in Capacities

NextCapacity ==
    \/ ScanFires
    \/ ScanSettles
    \/ ConfiguredQuickSettles
    \/ AnalysisFails
    \/ AnalysisSettles

CapacitySpec == CapacityInit /\ [][NextCapacity]_vars

\* the queue keeps its entries, in place
KeepsEntries ==
    /\ Len(tokenQueue') >= Len(tokenQueue)
    /\ \A i \in 1..Len(tokenQueue) : tokenQueue'[i] = tokenQueue[i]

\* C39: with maxConcurrentTrades >= 1 the queue is empty whenever control
\* returns to the event loop (what is pushed is shifted in the same step); with
\* maxConcurrentTrades = 0 nothing is ever taken from the queue and no
\* detailed analysis is started.
C39_QueueDrainedOrStuck ==
    [][/\ capacity >= 1 => tokenQueue' = <<>>
       /\ capacity = 0 => KeepsEntries /\ \A a \in Analyses : ~StartsAnalysis(a)]_vars

\* C39 witness: with a limit of at least one, a promising candidate is in
\* detailed analysis, the scan that found it is screening the next one and
\* the queue is empty
C39_Witness ==
    /\ capacity >= 1
    /\ tokenQueue = <<>>
    /\ \E a \in Analyses, s \in Scans :
          /\ analysis[a].pc = "analysis"
          /\ scan[s].pc = "quick"
          /\ analysis[a].token # Head(scan[s].todo)

====
